---- MODULE Spec2Model ----
(***************************************************************************)
(* A model of the OCI registry client (lib/registry-client-v2.ts with its  *)
(* collaborators lib/docker-json-client.ts and lib/www-authenticate.ts).   *)
(*                                                                         *)
(* One RegistryClientV2 instance is shared by the asynchronous operations  *)
(* of the tasks in Tasks.  JavaScript runs one task at a time and switches  *)
(* only at an `await`, so every action below is the code between two        *)
(* awaits of one operation.  The registry, the token server and the        *)
(* redirect targets are the environment: each answer is chosen from a      *)
(* small set when the awaiting operation resumes.  A specification fixes   *)
(* the tasks that run and the menu of calls and answers they draw from.    *)
(***************************************************************************)
EXTENDS Integers, Sequences, FiniteSets, TLC

VARIABLES
    client,         \* constructor options kept on the object: username, password, scopes, repo
    loggedIn,       \* this._loggedIn
    loggedInScope,  \* this._loggedInScope
    authInfo,       \* this._authInfo
    headers,        \* this._headers
    task,           \* per task: the operation in progress, its position and its locals
    calls,          \* history: number of operations started so far
    lastWrite       \* history: the call whose login() assigned the session fields last

vars == <<client, loggedIn, loggedInScope, authInfo, headers, task, calls, lastWrite>>

session == <<loggedIn, loggedInScope, authInfo, headers>>

(***************************************************************************)
(* Bounds of the model.                                                    *)
(***************************************************************************)
MaxCalls == 2          \* operations started on the client in one behaviour
MaxRedirectsOpt == 3   \* largest opts.maxRedirects a caller passes

Tasks == {"a", "b"}

(***************************************************************************)
(* JavaScript values.                                                      *)
(***************************************************************************)
Undefined == "undefined"   \* undefined / null / an absent option or header

Nullish(x, d) == IF x = Undefined THEN d ELSE x   \* x ?? d

Falsy(x) == x = Undefined \/ x = ""               \* !x for an optional string

RECURSIVE Join(_, _)
\* Array.prototype.join
Join(xs, sep) ==
    IF xs = <<>> THEN ""
    ELSE IF Len(xs) = 1 THEN xs[1]
    ELSE xs[1] \o sep \o Join(Tail(xs), sep)

\* btoa: the base64 text of a string, kept symbolic (one text per input)
Btoa(str) == "b64(" \o str \o ")"

UpperLetters == <<"A", "B", "C", "D", "E", "G", "I", "N", "R", "S", "T">>
LowerLetters == <<"a", "b", "c", "d", "e", "g", "i", "n", "r", "s", "t">>

\* String.prototype.toLowerCase on a word held as a sequence of characters
ToLowerCase(word) ==
    [i \in 1..Len(word) |->
        IF \E k \in 1..Len(UpperLetters) : UpperLetters[k] = word[i]
        THEN LowerLetters[CHOOSE k \in 1..Len(UpperLetters) : UpperLetters[k] = word[i]]
        ELSE word[i]]

(***************************************************************************)
(* Headers objects.  A Headers object is a record of the header fields the *)
(* client reads or writes; an absent field is Undefined (accept: empty).   *)
(***************************************************************************)
NewHeaders ==
    [authorization |-> Undefined, accept |-> <<>>, contentType |-> Undefined,
     contentLength |-> Undefined, userAgent |-> Undefined]

NoAuthInfo == [type |-> "null"]    \* this._authInfo = null

SetAuthHeaderNoop(hdrs, ai) == hdrs

SetAuthHeaderKeepOnNone(hdrs, ai) ==
    IF ai.type = "Bearer"
    THEN [hdrs EXCEPT !.authorization = "Bearer " \o ai.token]
    ELSE IF ai.type = "Basic"
    THEN [hdrs EXCEPT !.authorization =
            "Basic " \o Btoa(Nullish(ai.username, "") \o ":" \o Nullish(ai.password, ""))]
    ELSE hdrs

\* _setAuthHeaderFromAuthInfo: the headers object after the call
SetAuthHeaderFromAuthInfo(hdrs, ai) ==
    IF ai.type = "Bearer"
    THEN [hdrs EXCEPT !.authorization = "Bearer " \o ai.token]
    ELSE IF ai.type = "Basic"
    THEN [hdrs EXCEPT !.authorization =
            "Basic " \o Btoa(Nullish(ai.username, "") \o ":" \o Nullish(ai.password, ""))]
    ELSE [hdrs EXCEPT !.authorization = Undefined]

\* _makeAuthScope
MakeAuthScope(resource, name, actions) ==
    resource \o ":" \o name \o ":" \o Join(actions, ",")

PushActions == <<"pull", "push">>

(***************************************************************************)
(* www-authenticate.ts.  A header value is held as the pieces the two      *)
(* regular expressions cut it into: the leading word (a sequence of        *)
(* characters), whether white space follows it, and the tokens that        *)
(* split(/([",=])/) makes of the rest.  A token is the text with the white *)
(* space around it, so that trim() and += are computed, not assumed.       *)
(***************************************************************************)
Tok(pre, text, post) == [pre |-> pre, text |-> text, post |-> post]
Lit(text) == Tok("", text, "")
Raw(tok) == tok.pre \o tok.text \o tok.post      \* the token as split() returns it
Trim(tok) == tok.text                            \* tok.trim()
EQ == Lit("=")
COMMA == Lit(",")
QUOTE == Lit("\"")


\* header.split(/([",=])/) on the characters of header: the pieces between the
\* separators, empty ones included, and the separators themselves
SplitSeparators(chars) ==
    LET RECURSIVE Leading(_)
        Leading(cs) == IF cs # <<>> /\ Head(cs) = " " THEN 1 + Leading(Tail(cs)) ELSE 0
        RECURSIVE Trailing(_)
        Trailing(cs) ==
            IF cs # <<>> /\ cs[Len(cs)] = " "
            THEN 1 + Trailing(SubSeq(cs, 1, Len(cs) - 1)) ELSE 0
        Piece(cs) ==
            LET l == Leading(cs)
                r == IF l = Len(cs) THEN 0 ELSE Trailing(cs)
            IN Tok(Join(SubSeq(cs, 1, l), ""),
                   Join(SubSeq(cs, l + 1, Len(cs) - r), ""),
                   Join(SubSeq(cs, Len(cs) - r + 1, Len(cs)), ""))
        RECURSIVE Split(_, _)
        Split(i, cur) ==
            IF i > Len(chars) THEN <<Piece(cur)>>
            ELSE IF chars[i] \in {"\"", ",", "="}
            THEN <<Piece(cur), Lit(chars[i])>> \o Split(i + 1, <<>>)
            ELSE Split(i + 1, Append(cur, chars[i]))
    IN Split(1, <<>>)

Header(word, space, toks) == [word |-> word, space |-> space, toks |-> toks]
NoHeader == Header(<<>>, FALSE, <<>>)            \* headers.get(...) found nothing

EmptyParms == [k \in {} |-> ""]                  \* Object.create(null)

ParserStart == [state |-> 0, key |-> Undefined, value |-> Undefined,
                parms |-> EmptyParms, err |-> Undefined]

SetParm(parms, key, value) == (key :> value) @@ parms    \* this.parms[key] = value

\* Parser.parse_params: one iteration of the for loop on a non-empty token
ParseToken(st, tok) ==
    CASE st.state = 0 -> [st EXCEPT !.key = Trim(tok), !.state = 1]
      [] st.state = 1 ->
            IF Raw(tok) # "="
            THEN [st EXCEPT !.err = "Equal sign was expected after " \o st.key]
            ELSE [st EXCEPT !.state = 2]
      [] st.state = 2 ->
            IF Raw(tok) = "\""
            THEN [st EXCEPT !.value = "", !.state = 3]
            ELSE [st EXCEPT !.parms = SetParm(st.parms, st.key, Trim(tok)),
                            !.value = Trim(tok), !.state = 9]
      [] st.state = 3 ->
            IF Raw(tok) = "\""
            THEN [st EXCEPT !.state = 8]
            ELSE [st EXCEPT !.value = st.value \o Raw(tok)]
      [] st.state = 8 ->
            IF Raw(tok) = "\""
            THEN [st EXCEPT !.value = st.value \o "\"", !.state = 3]
            ELSE IF Raw(tok) = ","
            THEN [st EXCEPT !.parms = SetParm(st.parms, st.key, st.value), !.state = 0]
            ELSE [st EXCEPT !.err =
                    "Unexpected token (" \o Raw(tok) \o ") after " \o st.value \o "\""]
      [] st.state = 9 ->
            IF Raw(tok) # ","
            THEN [st EXCEPT !.err = "Comma expected after " \o st.value]
            ELSE [st EXCEPT !.state = 0]

RECURSIVE ParseLoopKeepingEmpty(_, _, _)
\* the for loop of parse_params without `if (!tok.length) continue`
ParseLoopKeepingEmpty(toks, i, st) ==
    IF st.err # Undefined \/ i > Len(toks) THEN st
    ELSE ParseLoopKeepingEmpty(toks, i + 1, ParseToken(st, toks[i]))

RECURSIVE ParseLoop(_, _, _)
\* Parser.parse_params: the for loop from index i; a return inside it ends the loop
ParseLoop(toks, i, st) ==
    IF st.err # Undefined \/ i > Len(toks) THEN st
    ELSE ParseLoop(toks, i + 1,
                   IF Raw(toks[i]) = "" THEN st ELSE ParseToken(st, toks[i]))

\* parse_params without the switch on the terminal state
ParseParamsAnyEnd(toks) == ParseLoop(toks, 1, ParserStart)

\* Parser.parse_params: the loop and the switch on the terminal state
ParseParams(toks) ==
    LET st == ParseLoop(toks, 1, ParserStart) IN
    IF st.err # Undefined THEN st
    ELSE IF st.state \in {0, 9} THEN st
    ELSE IF st.state = 8 THEN [st EXCEPT !.parms = SetParm(st.parms, st.key, st.value)]
    ELSE [st EXCEPT !.err = "Unexpected end of www-authenticate value."]

\* new Parse_WWW_Authenticate(header): thrown is TRUE when the constructor throws
\* (ParseAuth does not match, so m is null and m[1] is a TypeError)
ParseWWWAuthenticate(h) ==
    IF h.word = <<>> \/ ~h.space
    THEN [thrown |-> TRUE, scheme |-> <<>>, parms |-> EmptyParms, err |-> Undefined]
    ELSE LET st == ParseParams(h.toks) IN
         IF st.err # Undefined
         THEN [thrown |-> FALSE, scheme |-> <<>>, parms |-> EmptyParms, err |-> st.err]
         ELSE [thrown |-> FALSE, scheme |-> h.word, parms |-> st.parms, err |-> Undefined]

\* authChallenge.parms.<name>
Parm(parms, name) == IF name \in DOMAIN parms THEN parms[name] ELSE Undefined

(***************************************************************************)
(* Parsed JSON bodies: a value with its typeof.                            *)
(***************************************************************************)
JUndefined == [t |-> "undefined"]
JString(str) == [t |-> "string", v |-> str]
JNumber(n) == [t |-> "number", v |-> n]
JArray(elems) == [t |-> "array", v |-> elems]
JObject(fields) == [t |-> "object", v |-> fields]
JEmptyObject == JObject([k \in {} |-> JUndefined])

\* obj.name for a value that is not undefined
Get(j, name) ==
    IF j.t = "object" /\ name \in DOMAIN j.v THEN j.v[name] ELSE JUndefined

\* the value taken as a condition
Truthy(j) ==
    CASE j.t = "undefined" -> FALSE
      [] j.t = "string" -> j.v # ""
      [] j.t = "number" -> j.v # 0
      [] OTHER -> TRUE

(***************************************************************************)
(* Responses.  status 0 stands for a fetch that was rejected: no response. *)
(* body.text tells what dockerJson() makes of the body: "empty" gives      *)
(* undefined, "invalid" throws, "json" gives body.json.                    *)
(***************************************************************************)
NoLocation == [abs |-> FALSE, origin |-> "", path |-> ""]     \* no location header
RelLocation(path) == [abs |-> FALSE, origin |-> "", path |-> path]
AbsLocation(origin, path) == [abs |-> TRUE, origin |-> origin, path |-> path]

EmptyBody == [text |-> "empty", json |-> JUndefined]
InvalidBody == [text |-> "invalid", json |-> JUndefined]
JsonBody(j) == [text |-> "json", json |-> j]

Url(origin, path, query) == [origin |-> origin, path |-> path, query |-> query]
NoUrl == Url("", "", <<>>)

\* from is history: the URL of the request the response answers, once it is in a chain
Response(status, wwwAuth, location, dcd, apiVersion, body) ==
    [status |-> status, wwwAuth |-> wwwAuth, location |-> location, dcd |-> dcd,
     apiVersion |-> apiVersion, body |-> body, from |-> NoUrl]

Plain(status) == Response(status, NoHeader, NoLocation, <<>>, <<>>, EmptyBody)
FetchFailed == Plain(0)
NoResponse == Plain(-1)       \* a local that holds no response (yet)

Registry == "https://registry.example"     \* this._url
RemoteName == "library/busybox"            \* this.repo.remoteName
UserAgent == "node-oci-registry-client"    \* this._commonHttpClientOpts.userAgent

\* new URL(location, new URL(req.path, this._url))
ResolveLocation(location, base) ==
    IF location.abs THEN Url(location.origin, location.path, <<>>)
    ELSE Url(base.origin, location.path, <<>>)

(***************************************************************************)
(* docker-json-client.ts: DockerJsonClient.request up to the call of fetch *)
(***************************************************************************)
\* the request handed to fetch: a copy of opts.headers, accept defaulted, user-agent set
FetchRequest(accept, method, url, hdrs) ==
    LET withAccept == IF hdrs.accept = <<>> /\ accept # ""
                      THEN [hdrs EXCEPT !.accept = <<accept>>] ELSE hdrs
    IN [method |-> method, url |-> url,
        hdrs |-> [withAccept EXCEPT !.userAgent = UserAgent]]

RequestThrowsOnRejectionOnly(resp, expectStatus) == resp.status = 0

\* DockerJsonClient.request after fetch: does it throw?
RequestThrows(resp, expectStatus) == resp.status = 0 \/ resp.status \notin expectStatus

Error(name, message, status) == [name |-> name, message |-> message, status |-> status]

\* errors.ts getHttpError(statusCode): the name of the class it returns; it has no caller
GetHttpError(statusCode) ==
    CASE statusCode = 401 -> "UnauthorizedError"
      [] statusCode = 403 -> "DeniedError"
      [] statusCode = 404 -> "NotFoundError"
      [] OTHER -> "HttpError"

\* what DockerJsonClient.request throws for resp
RequestError(resp) ==
    IF resp.status = 0 THEN Error("FetchError", "request failed", 0)
    ELSE Error("HttpError", "Unexpected HTTP " \o ToString(resp.status), resp.status)

(***************************************************************************)
(* registry-client-v2.ts: the pure helpers                                 *)
(***************************************************************************)
IsArray(j) == j.t = "array"
First(j) == IF Len(j.v) >= 1 THEN j.v[1] ELSE JUndefined      \* j[0] of an array

\* String(j), as "..." + j computes it
Str(j) ==
    CASE j.t = "string" -> j.v
      [] j.t = "number" -> ToString(j.v)
      [] j.t = "undefined" -> "undefined"
      [] j.t = "array" -> "[array]"
      [] OTHER -> "[object Object]"

Returned(j) == [thrown |-> FALSE, value |-> j]
Thrown == [thrown |-> TRUE, value |-> JUndefined]     \* a TypeError was thrown

\* _getRegistryErrorMessage(err)
GetRegistryErrorMessage(err) ==
    LET body == Get(err, "body")
        bodyErrors == Get(body, "errors")
        errors == Get(err, "errors")
    IN
    IF err.t = "undefined" THEN Thrown
    ELSE IF Truthy(body) /\ IsArray(bodyErrors) /\ Truthy(First(bodyErrors))
    THEN Returned(Get(First(bodyErrors), "message"))
    ELSE IF Truthy(body) /\ Truthy(Get(body, "details"))
    THEN Returned(Get(body, "details"))
    ELSE IF IsArray(errors) /\ First(errors).t = "undefined" THEN Thrown
    ELSE IF IsArray(errors) /\ Truthy(Get(First(errors), "message"))
    THEN Returned(Get(First(errors), "message"))
    ELSE IF Truthy(Get(err, "message")) THEN Returned(Get(err, "message"))
    ELSE IF Truthy(Get(err, "details")) THEN Returned(Get(err, "details"))
    ELSE Returned(JString(Str(err)))

\* /^(\w+):\/\//.exec(realm): the scheme matched, Undefined when there is no match
RealmScheme(realm) ==
    CASE realm = "https://auth.example/token" -> "https"
      [] realm = "http://auth.example/token" -> "http"
      [] realm = "ftp://auth.example/token" -> "ftp"
      [] OTHER -> Undefined

\* the client's effective login scope: opts.scope || _makeAuthScope(...)
LoginScope(optScope, scopes) ==
    IF Falsy(optScope) THEN MakeAuthScope("repository", RemoteName, scopes) ELSE optScope

PullScope == MakeAuthScope("repository", RemoteName, <<"pull">>)
PushScope == MakeAuthScope("repository", RemoteName, PushActions)

\* login(): the memoization test
AlreadyLoggedInAnyScope(isIn, inScope, scope) == isIn

\* the test of a login() that also stands back for a login() in flight with its scope
AlreadyLoggedInOrInFlight(isIn, inScope, scope) ==
    \/ isIn /\ inScope = scope
    \/ \E u \in Tasks : /\ task[u].pc \in {"ping", "token", "loginWrite"}
                        /\ task[u].op # "performLogin" /\ task[u].scope = scope

\* this._loggedIn && this._loggedInScope === scope
AlreadyLoggedIn(isIn, inScope, scope) == isIn /\ inScope = scope

(***************************************************************************)
(* performLogin and _getToken, cut at their awaits.  Each segment yields   *)
(* an outcome: the request it issues and awaits ("ping", "token"), the     *)
(* AuthInfo it returns ("return") or the error it throws ("throw").        *)
(***************************************************************************)
NoRequest == [method |-> "", url |-> NoUrl, hdrs |-> NewHeaders]
NoError == Error("", "", 0)

\* how a call stands: not ended, returned, or ended with the error err
Pending == [state |-> "pending", err |-> NoError]
Ok == [state |-> "ok", err |-> NoError]
Failed(err) == [state |-> "error", err |-> err]

Issue(kind, req) == [kind |-> kind, req |-> req, auth |-> NoAuthInfo, err |-> NoError]
Return(ai) == [kind |-> "return", req |-> NoRequest, auth |-> ai, err |-> NoError]
Throw(err) == [kind |-> "throw", req |-> NoRequest, auth |-> NoAuthInfo, err |-> err]

AuthNone == [type |-> "None"]
AuthBasic(username, password) ==
    [type |-> "Basic", username |-> username, password |-> password]
AuthBearer(token) == [type |-> "Bearer", token |-> token]

\* ping(): the request
PingRequest(hdrs) == FetchRequest("application/json", "GET", Url(Registry, "/v2/", <<>>), hdrs)

\* _getToken up to its request, sending the credentials when there is a password
GetTokenStartWithPassword(cl, realm, service, scopes) ==
    LET scheme == RealmScheme(realm)
        tokenUrl == IF scheme = Undefined
                    THEN (IF cl.insecure THEN "http" ELSE "https") \o "://" \o realm
                    ELSE realm
        user == Nullish(cl.username, "")
        query == (IF Falsy(service) THEN <<>> ELSE << <<"service", service>> >>)
                 \o [i \in 1..Len(scopes) |-> <<"scope", scopes[i]>>]
                 \o (IF Falsy(cl.password) THEN <<>> ELSE << <<"account", user>> >>)
        hdrs == IF Falsy(cl.password) THEN NewHeaders
                ELSE SetAuthHeaderFromAuthInfo(NewHeaders, AuthBasic(user, cl.password))
    IN
    IF scheme # Undefined /\ scheme \notin {"http", "https"}
    THEN Throw(Error("Error", "unsupported scheme for WWW-Authenticate realm", 0))
    ELSE Issue("token", FetchRequest("application/json", "GET", Url(tokenUrl, "", query), hdrs))

\* _getToken up to its request
GetTokenStart(cl, realm, service, scopes) ==
    LET scheme == RealmScheme(realm)
        tokenUrl == IF scheme = Undefined
                    THEN (IF cl.insecure THEN "http" ELSE "https") \o "://" \o realm
                    ELSE realm
        query == (IF Falsy(service) THEN <<>> ELSE << <<"service", service>> >>)
                 \o [i \in 1..Len(scopes) |-> <<"scope", scopes[i]>>]
                 \o (IF Falsy(cl.username) THEN <<>> ELSE << <<"account", cl.username>> >>)
        hdrs == IF Falsy(cl.username) THEN NewHeaders
                ELSE SetAuthHeaderFromAuthInfo(NewHeaders,
                        AuthBasic(cl.username, Nullish(cl.password, "")))
    IN
    IF scheme # Undefined /\ scheme \notin {"http", "https"}
    THEN Throw(Error("Error", "unsupported scheme for WWW-Authenticate realm", 0))
    ELSE Issue("token", FetchRequest("application/json", "GET", Url(tokenUrl, "", query), hdrs))

IsBasicExact(scheme) == scheme = <<"b", "a", "s", "i", "c">>

\* authChallenge.scheme.toLowerCase() === 'basic'
IsBasic(scheme) == ToLowerCase(scheme) = <<"b", "a", "s", "i", "c">>

IsBearerExact(scheme) == scheme = <<"B", "e", "a", "r", "e", "r">>

\* authChallenge.scheme.toLowerCase() === 'bearer'
IsBearer(scheme) == ToLowerCase(scheme) = <<"b", "e", "a", "r", "e", "r">>

\* performLogin from `const chalHeader = ...` on, with a header that is present
Challenge(cl, scope, chalHeader) ==
    LET parsed == ParseWWWAuthenticate(chalHeader) IN
    IF parsed.thrown
    THEN Throw(Error("TypeError", "Cannot read properties of null", 0))
    ELSE IF parsed.err # Undefined
    THEN Throw(Error("Error", "could not parse WWW-Authenticate header: " \o parsed.err, 0))
    ELSE IF IsBasic(parsed.scheme)
    THEN Return(AuthBasic(Nullish(cl.username, ""), Nullish(cl.password, "")))
    ELSE IF IsBearer(parsed.scheme)
    THEN GetTokenStart(cl, Parm(parsed.parms, "realm"), Parm(parsed.parms, "service"),
                       IF Falsy(scope) THEN <<>> ELSE <<scope>>)
    ELSE Throw(Error("Error", "unsupported auth scheme", 0))

\* !res?.headers.get('www-authenticate')
LacksChallenge(res) == res.wwwAuth = NoHeader

\* performLogin up to its first await
PerformLoginStart(cl, scope, pingRes) ==
    IF LacksChallenge(pingRes) THEN Issue("ping", PingRequest(NewHeaders))
    ELSE Challenge(cl, scope, pingRes.wwwAuth)

PerformLoginAfterPingChallengeFirst(cl, scope, res) ==
    IF res.wwwAuth = NoHeader
    THEN Throw(Error("HttpError", "missing WWW-Authenticate header from GET /v2/", res.status))
    ELSE Challenge(cl, scope, res.wwwAuth)

PerformLoginAfterPingLenient(cl, scope, res) ==
    IF res.status = 200 \/ res.wwwAuth = NoHeader THEN Return(AuthNone)
    ELSE Challenge(cl, scope, res.wwwAuth)

\* performLogin after its ping returned res (status 200 or 401)
PerformLoginAfterPing(cl, scope, res) ==
    IF res.status = 200 THEN Return(AuthNone)
    ELSE IF res.wwwAuth = NoHeader
    THEN Throw(Error("HttpError", "missing WWW-Authenticate header from GET /v2/", res.status))
    ELSE Challenge(cl, scope, res.wwwAuth)

\* _getToken after its request returned resp (status 200 or 401)
GetTokenAfter(resp) ==
    LET msg == GetRegistryErrorMessage(resp.body.json)
        token == Get(resp.body.json, "token")
    IN
    IF resp.body.text = "invalid"
    THEN Throw(Error("Error", "Invalid JSON in response", 0))
    ELSE IF resp.status = 401
    THEN IF msg.thrown THEN Throw(Error("TypeError", "Cannot read properties of undefined", 0))
         ELSE Throw(Error("HttpError", "Registry auth failed: " \o Str(msg.value), 401))
    ELSE IF resp.body.json.t = "undefined"
    THEN Throw(Error("TypeError", "Cannot read properties of undefined", 0))
    ELSE IF token.t # "string"
    THEN Throw(Error("HttpError",
                     "authorization server did not include a token in the response",
                     resp.status))
    ELSE Return(AuthBearer(token.v))


(***************************************************************************)
(* common.ts.  A string is held as the sequence of its characters, so that *)
(* indexOf, slice and the tests on single characters are computed.         *)
(***************************************************************************)
\* the characters of the string literals of common.ts and of the arguments explored
Chars ==
       ("://" :> <<":", "/", "/">>)
    @@ ("/" :> <<"/">>)
    @@ (":" :> <<":">>)
    @@ ("." :> <<".">>)
    @@ ("@" :> <<"@">>)
    @@ ("--" :> <<"-", "-">>)
    @@ ("http" :> <<"h", "t", "t", "p">>)
    @@ ("https" :> <<"h", "t", "t", "p", "s">>)
    @@ ("docker.io" :> <<"d", "o", "c", "k", "e", "r", ".", "i", "o">>)
    @@ ("index.docker.io" :> <<"i", "n", "d", "e", "x", ".", "d", "o", "c", "k", "e", "r", ".", "i", "o">>)
    @@ ("https://index.docker.io/v1/" :> <<"h", "t", "t", "p", "s", ":", "/", "/", "i", "n", "d", "e", "x", ".", "d", "o", "c", "k", "e", "r", ".", "i", "o", "/", "v", "1", "/">>)
    @@ ("localhost" :> <<"l", "o", "c", "a", "l", "h", "o", "s", "t">>)
    @@ ("127.0.0.1" :> <<"1", "2", "7", ".", "0", ".", "0", ".", "1">>)
    @@ ("::1" :> <<":", ":", "1">>)
    @@ ("library" :> <<"l", "i", "b", "r", "a", "r", "y">>)
    @@ ("latest" :> <<"l", "a", "t", "e", "s", "t">>)
    @@ ("localhost:5000" :> <<"l", "o", "c", "a", "l", "h", "o", "s", "t", ":", "5", "0", "0", "0">>)
    @@ ("reg.example" :> <<"r", "e", "g", ".", "e", "x", "a", "m", "p", "l", "e">>)
    @@ ("ftp" :> <<"f", "t", "p">>)
    @@ ("blarg" :> <<"b", "l", "a", "r", "g">>)
    @@ ("google/python" :> <<"g", "o", "o", "g", "l", "e", "/", "p", "y", "t", "h", "o", "n">>)
    @@ ("library/busybox" :> <<"l", "i", "b", "r", "a", "r", "y", "/", "b", "u", "s", "y", "b", "o", "x">>)
    @@ ("mytag" :> <<"m", "y", "t", "a", "g">>)
    @@ ("sha256:cafebabe" :> <<"s", "h", "a", "2", "5", "6", ":", "c", "a", "f", "e", "b", "a", "b", "e">>)
    @@ ("-ab" :> <<"-", "a", "b">>)
    @@ ("ab-" :> <<"a", "b", "-">>)
    @@ ("-ab-" :> <<"-", "a", "b", "-">>)
    @@ ("a--b" :> <<"a", "-", "-", "b">>)
    @@ ("a" :> <<"a">>)
    @@ ("Ab" :> <<"A", "b">>)
    @@ ("ab" :> <<"a", "b">>)
    @@ ("c" :> <<"c">>)
    @@ ("a.b_c-d" :> <<"a", ".", "b", "_", "c", "-", "d">>)

\* str.indexOf(sub, from): the first place at or after from where sub begins;
\* places count from 1 and 0 stands for -1
IndexOf(str, sub, from) ==
    LET at == {i \in from..(Len(str) - Len(sub) + 1) : SubSeq(str, i, i + Len(sub) - 1) = sub}
    IN IF at = {} THEN 0 ELSE CHOOSE i \in at : \A j \in at : i <= j

\* str.lastIndexOf(sub)
LastIndexOf(str, sub) ==
    LET at == {i \in 1..(Len(str) - Len(sub) + 1) : SubSeq(str, i, i + Len(sub) - 1) = sub}
    IN IF at = {} THEN 0 ELSE CHOOSE i \in at : \A j \in at : i >= j

\* parseIndex(arg), the empty arg standing for the absent one as well: how it
\* ends and the RegistryIndex it returns
ParseIndex(arg) ==
    LET IsLocalhost(host) ==
            LET colon == IndexOf(host, Chars[":"], 1)
                lead == IF colon = 0 THEN host ELSE SubSeq(host, 1, colon - 1)
            IN \/ lead = Chars["localhost"] \/ lead = Chars["127.0.0.1"]
               \/ IndexOf(host, Chars["::1"], 1) # 0
        Raise(message) ==
            [result |-> Failed(Error("Error", message \o Join(arg, ""), 0)),
             index |-> [name |-> <<>>, official |-> FALSE, scheme |-> ""]]
        \* the index of that name, unless it is the official one over http
        Index(scheme, indexName) ==
            IF indexName = Chars["docker.io"] /\ scheme = "http"
            THEN Raise("invalid index, plaintext HTTP to official index is disallowed: ")
            ELSE [result |-> Ok,
                  index |-> [name |-> indexName, official |-> indexName = Chars["docker.io"],
                             scheme |-> scheme]]
        \* given: indexName as cut from arg; host: the same without a trailing "/"
        Named(scheme, given, host) ==
            IF given = <<>> THEN Raise("invalid index, empty host: ")
            ELSE IF /\ IndexOf(given, Chars["."], 1) = 0 /\ IndexOf(given, Chars[":"], 1) = 0
                    /\ given # Chars["localhost"]
            THEN Raise("invalid index, does not look like a valid host: ")
            ELSE IF IndexOf(host, Chars["/"], 1) # 0
            THEN Raise("invalid index, trailing repo: ")
            ELSE Index(scheme, IF host = Chars["index.docker.io"] THEN Chars["docker.io"]
                               ELSE host)
        Schemed(scheme, given) ==
            Named(scheme, given,
                  IF given # <<>> /\ given[Len(given)] = "/"
                  THEN SubSeq(given, 1, Len(given) - 1) ELSE given)
        Split(protoSepIdx, foundScheme) ==
            IF protoSepIdx = 0
            THEN Schemed(IF IsLocalhost(arg) THEN "http" ELSE "https", arg)
            ELSE IF foundScheme \notin {Chars["http"], Chars["https"]}
            THEN Raise("invalid index scheme, must be \"http\" or \"https\": ")
            ELSE Schemed(Join(foundScheme, ""), SubSeq(arg, protoSepIdx + 3, Len(arg)))
        Proto(protoSepIdx) == Split(protoSepIdx, SubSeq(arg, 1, protoSepIdx - 1))
    IN
    IF arg = <<>> \/ arg = Chars["https://index.docker.io/v1/"]
    THEN [result |-> Ok,
          index |-> [name |-> Chars["docker.io"], official |-> TRUE, scheme |-> "https"]]
    ELSE Proto(IndexOf(arg, Chars["://"], 1))

\* parseRepo(arg, defaultIndex): defaultIndex is absent, a string or a RegistryIndex
ParseRepo(arg, defaultIndex) ==
    LET ValidNs == {"a", "b", "c", "d", "e", "f", "g", "h", "i", "j", "k", "l", "m", "n",
                    "o", "p", "q", "r", "s", "t", "u", "v", "w", "x", "y", "z", "0", "1",
                    "2", "3", "4", "5", "6", "7", "8", "9", ".", "_", "-"}
        ValidRepo == ValidNs \cup {"/"}
        Raise(message, str) ==
            [result |-> Failed(Error("Error", message \o Join(str, ""), 0)),
             index |-> [name |-> <<>>, official |-> FALSE, scheme |-> ""],
             official |-> FALSE, remoteName |-> <<>>, localName |-> <<>>,
             canonicalName |-> <<>>]
        Repo(index, official, remoteName, localName) ==
            [result |-> Ok, index |-> index, official |-> official,
             remoteName |-> remoteName, localName |-> localName,
             canonicalName |-> IF index.official
                               THEN Chars["docker.io"] \o Chars["/"] \o localName
                               ELSE localName]
        Local(index, official, name, remoteName) ==
            Repo(index, official, remoteName,
                 IF index.official THEN (IF official THEN name ELSE remoteName)
                 ELSE index.name \o Chars["/"] \o remoteName)
        Remote(index, ns, name) ==
            Local(index, index.official /\ ns = Chars["library"], name,
                  IF ns # <<>> THEN ns \o Chars["/"] \o name ELSE name)
        \* two: nameParts.length === 2; ns: nameParts[0] then
        Validated(index, two, ns, name) ==
            IF two /\ (Len(ns) < 2 \/ Len(ns) > 255)
            THEN Raise("invalid repository namespace, must be between 2 and 255 characters: ",
                       ns)
            ELSE IF two /\ \E i \in DOMAIN ns : ns[i] \notin ValidNs
            THEN Raise("invalid repository namespace, may only contain [a-z0-9._-] characters: ",
                       ns)
            ELSE IF two /\ ns[1] = "-" /\ ns[Len(ns)] = "-"
            THEN Raise("invalid repository namespace, cannot start or end with a hypen: ", ns)
            ELSE IF two /\ IndexOf(ns, Chars["--"], 1) # 0
            THEN Raise("invalid repository namespace, cannot contain consecutive hyphens: ", ns)
            ELSE IF \E i \in DOMAIN name : name[i] \notin ValidRepo
            THEN Raise("invalid repository name, may only contain [a-z0-9_/.-] characters: ",
                       name)
            ELSE Remote(index, IF two THEN ns
                               ELSE IF index.official THEN Chars["library"] ELSE <<>>, name)
        NameParts(parsed, remoteNameRaw, nsIdx) ==
            IF parsed.result # Ok THEN [Raise("", <<>>) EXCEPT !.result = parsed.result]
            ELSE Validated(parsed.index, nsIdx # 0, SubSeq(remoteNameRaw, 1, nsIdx - 1),
                           SubSeq(remoteNameRaw, nsIdx + 1, Len(remoteNameRaw)))
        Indexed(parsed, remoteNameRaw) ==
            NameParts(parsed, remoteNameRaw, IndexOf(remoteNameRaw, Chars["/"], 1))
        Split(protoSepIdx, slashIdx, parts0) ==
            IF protoSepIdx # 0 /\ slashIdx = 0
            THEN Raise("invalid repository name, no \"/REPO\" after hostame: ", arg)
            ELSE IF /\ protoSepIdx = 0
                    /\ \/ slashIdx = 0
                       \/ /\ IndexOf(parts0, Chars["."], 1) = 0
                          /\ IndexOf(parts0, Chars[":"], 1) = 0
                          /\ parts0 # Chars["localhost"]
            THEN Indexed(CASE defaultIndex.kind = "undefined" -> ParseIndex(<<>>)
                           [] defaultIndex.kind = "string" -> ParseIndex(defaultIndex.str)
                           [] defaultIndex.kind = "object" ->
                                [result |-> Ok, index |-> defaultIndex.index],
                         arg)
            ELSE Indexed(ParseIndex(parts0), SubSeq(arg, slashIdx + 1, Len(arg)))
        Slashed(protoSepIdx, slashIdx) ==
            Split(protoSepIdx, slashIdx, SubSeq(arg, 1, slashIdx - 1))
        Proto(protoSepIdx) ==
            Slashed(protoSepIdx,
                    IndexOf(arg, Chars["/"], IF protoSepIdx # 0 THEN protoSepIdx + 3 ELSE 1))
    IN Proto(IndexOf(arg, Chars["://"], 1))

\* canonicalRef with the tag left out when there is a digest
CanonicalRefTagOrDigest(canonicalName, tag, digest) ==
    canonicalName
    \o (IF digest # <<>> /\ digest[1] # <<>> THEN Chars["@"] \o digest[1]
        ELSE IF tag # <<>> /\ tag[1] # <<>> THEN Chars[":"] \o tag[1] ELSE <<>>)

\* [repo.canonicalName, tag ? `:${tag}` : '', digest ? `@${digest}` : ''].join('')
CanonicalRef(canonicalName, tag, digest) ==
    canonicalName
    \o (IF tag # <<>> /\ tag[1] # <<>> THEN Chars[":"] \o tag[1] ELSE <<>>)
    \o (IF digest # <<>> /\ digest[1] # <<>> THEN Chars["@"] \o digest[1] ELSE <<>>)

\* parseRepoAndRef(arg, defaultIndex): digest and tag are <<>> for null and hold
\* the string otherwise
ParseRepoAndRef(arg, defaultIndex) ==
    LET Image(repo, digest, tag) ==
            [result |-> repo.result, repo |-> repo,
             digest |-> IF repo.result = Ok THEN digest ELSE <<>>,
             tag |-> IF repo.result = Ok THEN tag ELSE <<>>,
             canonicalRef |->
                IF repo.result = Ok THEN CanonicalRef(repo.canonicalName, tag, digest)
                ELSE <<>>]
        \* named: arg without the digest; tagged: colonIdx !== -1 && colonIdx > slashIdx
        Tagged(atIdx, named, colonIdx, tagged) ==
            Image(ParseRepo(IF tagged THEN SubSeq(named, 1, colonIdx - 1) ELSE named,
                            defaultIndex),
                  IF atIdx # 0 THEN <<SubSeq(arg, atIdx + 1, Len(arg))>> ELSE <<>>,
                  IF tagged THEN <<SubSeq(named, colonIdx + 1, Len(named))>>
                  ELSE IF atIdx # 0 THEN <<>> ELSE <<Chars["latest"]>>)
        Colon(atIdx, named, colonIdx) ==
            Tagged(atIdx, named, colonIdx,
                   colonIdx # 0 /\ colonIdx > LastIndexOf(named, Chars["/"]))
        Named(atIdx, named) == Colon(atIdx, named, LastIndexOf(named, Chars[":"]))
        At(atIdx) == Named(atIdx, IF atIdx # 0 THEN SubSeq(arg, 1, atIdx - 1) ELSE arg)
    IN At(LastIndexOf(arg, Chars["@"]))

\* urlFromIndex(index, scheme), scheme being Undefined when absent
\* urlFromIndex without its tests of the scheme
UrlFromIndexOfScheme(index, scheme) ==
    [result |-> Ok, url |-> Nullish(scheme, index.scheme) \o "://" \o Join(index.name, "")]

UrlFromIndex(index, scheme) ==
    IF index.official
    THEN IF scheme # Undefined /\ scheme # "https"
         THEN [result |-> Failed(Error("Error",
                    "Unencrypted communication with docker.io is not allowed", 0)),
               url |-> ""]
         ELSE [result |-> Ok, url |-> "https://registry-1.docker.io"]
    ELSE IF scheme # Undefined /\ scheme # "https" /\ scheme # "http"
         THEN [result |-> Failed(Error("Error",
                    "Non-HTTP communication with docker registries is not allowed", 0)),
               url |-> ""]
         ELSE [result |-> Ok,
               url |-> Nullish(scheme, index.scheme) \o "://" \o Join(index.name, "")]

(***************************************************************************)
(* The environment: what callers pass and what servers answer.             *)
(***************************************************************************)
BasicParams == <<Lit("realm"), EQ, QUOTE, Lit("registry.example"), QUOTE>>
BearerParams(realm) ==
    <<Lit("realm"), EQ, QUOTE, Lit(realm), QUOTE, COMMA,
      Lit("service"), EQ, QUOTE, Lit("registry.example"), QUOTE>>

\* the www-authenticate values a server may send
Challenges ==
    [basic |-> Header(<<"B", "a", "s", "i", "c">>, TRUE, BasicParams),
     basicUpper |-> Header(<<"B", "A", "S", "I", "C">>, TRUE, BasicParams),
     bearer |-> Header(<<"B", "e", "a", "r", "e", "r">>, TRUE,
                       BearerParams("https://auth.example/token")),
     bearerLower |-> Header(<<"b", "e", "a", "r", "e", "r">>, TRUE,
                            BearerParams("auth.example/token")),
     bearerFtp |-> Header(<<"B", "e", "a", "r", "e", "r">>, TRUE,
                          BearerParams("ftp://auth.example/token")),
     digest |-> Header(<<"D", "i", "g", "e", "s", "t">>, TRUE, BasicParams),
     malformed |-> Header(<<"B", "a", "s", "i", "c">>, TRUE, <<Lit("realm"), QUOTE>>),
     wordOnly |-> Header(<<"B", "a", "s", "i", "c">>, FALSE, <<>>)]

PingResponse(status, wwwAuth, apiVersion) ==
    Response(status, wwwAuth, NoLocation, <<>>, apiVersion, EmptyBody)

NoPingRes == NoResponse      \* opts.pingRes not given

TokenBody(token) == JsonBody(JObject([token |-> token]))
TokenResponse(status, body) == Response(status, NoHeader, NoLocation, <<>>, <<>>, body)
IssuedToken(n) == "token-" \o ToString(n)     \* the token minted for the request of call n

Digest == "sha256:cafe"      \* opts.digest / opts.ref of the calls

\* the bytes a blob response may deliver as its body
Layers == [one |-> "layer one", two |-> "layer two"]

\* manifest strings a caller hands to digestFromManifestStr
Manifests ==
    [v2 |-> "{\"schemaVersion\":2,\"layers\":[]}",
     v2Reordered |-> "{\"layers\":[],\"schemaVersion\":2}",
     v2Spaced |-> "{ \"schemaVersion\": 2, \"layers\": [] }",
     v1 |-> "{\"schemaVersion\":1}",
     v1Signed |-> "{\"schemaVersion\":1,\"signatures\":[]}",
     v1String |-> "{\"schemaVersion\":\"1\"}",
     null |-> "null",
     truncated |-> "{\"schemaVersion\":2",
     empty |-> ""]
BlobResponse(status, location, dcd) ==
    Response(status, NoHeader, location, dcd, <<>>, JsonBody(JEmptyObject))
ManifestBody(version) == JsonBody(JObject([schemaVersion |-> JNumber(version)]))

LoginOps ==
    {"listTags", "getManifest", "deleteManifest", "headBlob", "createBlobReadStream",
     "putManifest", "blobUpload"}

\* what the server may answer to the operation's own request
PrimaryResponses(op) ==
    CASE op = "listTags" ->
            {BlobResponse(200, NoLocation, <<>>), Plain(200), Plain(401), FetchFailed}
      [] op = "getManifest" ->
            {Response(200, NoHeader, NoLocation, <<>>, <<>>, ManifestBody(2)),
             Response(200, NoHeader, NoLocation, <<>>, <<>>, ManifestBody(1)),
             Response(200, NoHeader, NoLocation, <<>>, <<>>,
                      JsonBody(JObject([schemaVersion |-> JNumber(1),
                                        signatures |-> JArray(<<>>)]))),
             Response(401, NoHeader, NoLocation, <<>>, <<>>,
                      JsonBody(JObject([errors |-> JArray(<<JObject([message |->
                                            JString("authentication required")])>>)]))),
             Response(401, NoHeader, NoLocation, <<>>, <<>>,
                      JsonBody(JObject([errors |-> JArray(<<>>)]))),
             Plain(200), Plain(404), FetchFailed}
      [] op = "deleteManifest" ->
            {Plain(200), BlobResponse(202, NoLocation, <<>>), Plain(404), FetchFailed}
      [] op = "putManifest" ->
            {BlobResponse(201, RelLocation("/v2/manifests/x"), <<"sha256", "cafe">>),
             Plain(201), Plain(400), FetchFailed}
      [] op = "blobUpload" ->
            {BlobResponse(202, RelLocation("/v2/uploads/1"), <<>>),
             BlobResponse(202, AbsLocation("https://upload.example", "/1"), <<>>),
             Plain(202), Plain(401), FetchFailed}
      [] OTHER -> {}

DefaultMaxRedirects == 3     \* opts.maxRedirects ?? 3

\* headers a caller of _makeHttpRequest passes
CallerHeaders ==
    [NewHeaders EXCEPT !.authorization = "Bearer caller-token", !.accept = <<"*/*">>]

(***************************************************************************)
(* Menus: the calls the caller makes and the answers the servers give in   *)
(* one specification.                                                      *)
(***************************************************************************)
FullMenu ==
    [clients |->
        {[username |-> Undefined, password |-> Undefined, token |-> Undefined,
          scopes |-> <<"pull">>, insecure |-> FALSE],
         [username |-> "bob", password |-> "secret", token |-> Undefined,
          scopes |-> PushActions, insecure |-> FALSE],
         [username |-> "bob", password |-> Undefined, token |-> "ctor-token",
          scopes |-> <<"pull">>, insecure |-> TRUE],
         [username |-> Undefined, password |-> "secret", token |-> Undefined,
          scopes |-> <<"pull">>, insecure |-> FALSE],
         [username |-> "", password |-> "secret", token |-> Undefined,
          scopes |-> <<"pull">>, insecure |-> TRUE]},
     scopes |-> {Undefined, "", PushScope},
     pingRes |-> {NoPingRes, PingResponse(200, NoHeader, <<>>),
                  PingResponse(401, Challenges.basic, <<>>),
                  PingResponse(401, Challenges.bearer, <<>>)},
     ops |-> LoginOps,
     pings |-> {PingResponse(401, h, <<>>) :
                    h \in {Challenges[k] : k \in DOMAIN Challenges} \cup {NoHeader}}
               \cup {PingResponse(200, NoHeader, <<>>),
                     PingResponse(200, Challenges.basic, <<>>),
                     PingResponse(404, NoHeader, <<>>), FetchFailed},
     probes |-> {PingResponse(s, NoHeader, v) :
                    s \in {200, 401, 404, 500},
                    v \in {<<>>, <<"registry/2.0">>, <<"registry/1.0">>,
                           <<"registry/1.0", "registry/2.0">>}}
                \cup {FetchFailed},
     tokens |-> {TokenResponse(200, TokenBody(JNumber(7))),
                 TokenResponse(200, JsonBody(JEmptyObject)),
                 TokenResponse(200, EmptyBody), TokenResponse(200, InvalidBody),
                 TokenResponse(401, JsonBody(JObject([details |->
                                        JString("incorrect username or password")]))),
                 TokenResponse(401, JsonBody(JObject([errors |-> JArray(<<>>)]))),
                 TokenResponse(401, JsonBody(JObject(
                    [body |-> JObject([errors |-> JArray(<<JObject([message |-> JString("a")])>>),
                                       details |-> JString("b")]),
                     errors |-> JArray(<<JObject([message |-> JString("c")])>>),
                     message |-> JString("d")]))),
                 TokenResponse(401, JsonBody(JObject(
                    [body |-> JObject([errors |-> JArray(<<>>), details |-> JString("b")]),
                     errors |-> JArray(<<JObject([message |-> JString("c")])>>),
                     message |-> JString("d")]))),
                 TokenResponse(401, JsonBody(JObject(
                    [errors |-> JArray(<<JObject([message |-> JString("c")])>>),
                     message |-> JString("d"), details |-> JString("e")]))),
                 TokenResponse(401, JsonBody(JObject(
                    [message |-> JString("d"), details |-> JString("e")]))),
                 TokenResponse(401, JsonBody(JEmptyObject)),
                 TokenResponse(401, EmptyBody), TokenResponse(403, EmptyBody), FetchFailed},
     hops |-> {BlobResponse(200, NoLocation, <<"sha256", "cafe">>),
               BlobResponse(200, NoLocation, <<"sha256", "beef">>),
               BlobResponse(200, NoLocation, <<>>),
               BlobResponse(200, RelLocation("/moved"), <<>>),
               BlobResponse(302, RelLocation("/moved"), <<"sha256", "cafe">>),
               BlobResponse(302, RelLocation("/moved"), <<"sha256", "beef">>),
               BlobResponse(307, AbsLocation("https://cdn.example", "/blob"), <<>>),
               BlobResponse(307, NoLocation, <<"md5", "cafe">>),
               Plain(404), FetchFailed},
     primary |-> [op \in LoginOps |-> PrimaryResponses(op)],
     uploads |-> {Plain(201), Plain(500), FetchFailed},
     follow |-> BOOLEAN,
     maxRedirects |-> 0..MaxRedirectsOpt,
     callerHeaders |-> {NewHeaders, CallerHeaders},
     blobs |-> {Layers[k] : k \in DOMAIN Layers},
     manifestStrs |-> {Manifests[k] : k \in DOMAIN Manifests},
     \* the arguments of parseRepoAndRef
     refs |->
        LET C == Chars
            Undef == [kind |-> "undefined", str |-> <<>>,
                      index |-> [name |-> <<>>, official |-> FALSE, scheme |-> ""]]
            Given(str) == [Undef EXCEPT !.kind = "string", !.str = str]
            Obj(str) == [Undef EXCEPT !.kind = "object", !.index = ParseIndex(str).index]
            Idx == {<<>>, C["docker.io"] \o C["/"], C["index.docker.io"] \o C["/"],
                    C["localhost:5000"] \o C["/"], C["reg.example"] \o C["/"],
                    C["http"] \o C["://"] \o C["localhost:5000"] \o C["/"],
                    C["https"] \o C["://"] \o C["docker.io"] \o C["/"],
                    C["http"] \o C["://"] \o C["docker.io"] \o C["/"],
                    C["ftp"] \o C["://"] \o C["reg.example"] \o C["/"]}
            Repo == {C["blarg"], C["google/python"], C["library/busybox"]}
            Ref == {<<>>, C[":"] \o C["mytag"], C[":"] \o C["latest"],
                    C["@"] \o C["sha256:cafebabe"],
                    C[":"] \o C["mytag"] \o C["@"] \o C["sha256:cafebabe"],
                    C[":"], C["@"]}
            Ns == {C["-ab"], C["ab-"], C["-ab-"], C["a--b"], C["a"], C["Ab"], C["ab"],
                   C["a.b_c-d"]}
            Default == {Given(C["reg.example"]), Given(C["http"] \o C["://"] \o C["docker.io"]),
                        Given(C["https://index.docker.io/v1/"]), Given(C["localhost"]),
                        Given(C["blarg"]), Given(C["reg.example"] \o C["/"]),
                        Given(C["reg.example"] \o C["/"] \o C["c"]),
                        Given(C["http"] \o C["://"]), Obj(<<>>), Obj(C["localhost:5000"])}
        IN {[arg |-> i \o r \o x, defaultIndex |-> Undef] :
                i \in Idx, r \in Repo, x \in Ref}
           \cup {[arg |-> i \o ns \o C["/"] \o C["c"], defaultIndex |-> Undef] :
                    i \in {<<>>, C["reg.example"] \o C["/"]}, ns \in Ns}
           \cup {[arg |-> r \o x, defaultIndex |-> d] :
                    r \in {C["blarg"], C["google/python"]},
                    x \in {<<>>, C[":"] \o C["mytag"]}, d \in Default},
     \* opts.name and opts.scheme of the constructor
     names |-> {Chars["blarg"], Chars["google/python"],
                Chars["docker.io"] \o Chars["/"] \o Chars["blarg"],
                Chars["index.docker.io"] \o Chars["/"] \o Chars["blarg"],
                Chars["localhost:5000"] \o Chars["/"] \o Chars["blarg"],
                Chars["http"] \o Chars["://"] \o Chars["docker.io"] \o Chars["/"]
                    \o Chars["blarg"],
                Chars["http"] \o Chars["://"] \o Chars["reg.example"] \o Chars["/"]
                    \o Chars["blarg"]},
     schemes |-> {Undefined, "http", "https", "ftp"},
     \* the values handed to _parseDockerContentDigest, as their pieces between colons
     dcds |-> {<<>>, <<"">>, <<"sha256">>, <<"deadbeef">>, <<"sha256", "deadbeef">>,
               <<"sha256", "dead", "beef">>, <<"sha256", "">>, <<"", "deadbeef">>,
               <<"md5", "xxxx">>, <<"SHA256", "deadbeef">>, <<"sha512", "deadbeef">>},
     \* the strings a caller hands to Parse_WWW_Authenticate: the scheme word,
     \* whether white space follows it, and the characters after that
     headers |->
        LET Quoted(content) == <<"k", "=", "\"">> \o content \o <<"\"">>
            Letters == {"a", ",", "=", "\""}
            Blanks == Letters \cup {" "}
            Basic == <<"B", "a", "s", "i", "c">>
        IN {[word |-> <<"B", "e", "a", "r", "e", "r">>, space |-> TRUE, params |->
              <<"r", "e", "a", "l", "m", "=", "\"", "h", "t", "t", "p", "s", ":", "/",
                 "/", "a", "u", "t", "h", ".", "e", "x", "a", "m", "p", "l", "e", "/",
                 "t", "o", "k", "e", "n", "\"", ",", "s", "e", "r", "v", "i", "c", "e",
                 "=", "\"", "r", "e", "g", "i", "s", "t", "r", "y", ".", "e", "x", "a",
                 "m", "p", "l", "e", "\"">>]}
           \cup {[word |-> Basic, space |-> TRUE, params |-> Quoted(content)] :
                    content \in {<<>>} \cup {<<c>> : c \in Letters}
                                \cup {<<c, d>> : c \in Letters, d \in Letters}
                                \cup {<<c, d, e>> : c \in Letters, d \in Letters, e \in Letters}
                                \cup {<<"a", ",", "b", "=", "c", "\"", "\"", "d">>}}
           \cup {[word |-> Basic, space |-> TRUE, params |-> <<"k">> \o rest] :
                    rest \in {<<>>} \cup {<<c>> : c \in Blanks}
                             \cup {<<c, d>> : c \in Blanks, d \in Blanks}
                             \cup {<<c, d, e>> : c \in Blanks, d \in Blanks, e \in Blanks}
                             \cup {<<"=", "a", " ", "j", "=", "b">>,
                                   <<"=", "\"", "a", "\"", "b">>,
                                   <<"=", "\"", "a", "\"", " ", "j", "=", "\"", "b", "\"">>,
                                   <<"=", "\"", "a", "\"", ",", "j">>}}
           \cup {[word |-> Basic, space |-> FALSE, params |-> <<>>],
                 [word |-> Basic, space |-> TRUE, params |-> <<>>],
                 [word |-> <<>>, space |-> FALSE, params |-> <<>>]}]

\* the calls and answers of the specification in which two tasks run at once
ConcurrentMenu ==
    [clients |->
        {[username |-> "bob", password |-> "secret", token |-> Undefined,
          scopes |-> <<"pull">>, insecure |-> FALSE]},
     scopes |-> {Undefined, PushScope},
     pingRes |-> {NoPingRes},
     ops |-> {"getManifest", "blobUpload", "headBlob"},
     pings |-> {PingResponse(200, NoHeader, <<>>), PingResponse(401, Challenges.basic, <<>>),
                PingResponse(401, Challenges.bearer, <<>>)},
     probes |-> {},
     tokens |-> {TokenResponse(401, EmptyBody)},
     hops |-> {BlobResponse(200, NoLocation, <<>>),
               BlobResponse(307, AbsLocation("https://cdn.example", "/blob"), <<>>)},
     primary |-> [op \in LoginOps |->
                    IF op = "blobUpload"
                    THEN {BlobResponse(202, RelLocation("/v2/uploads/1"), <<>>), Plain(401)}
                    ELSE {Response(200, NoHeader, NoLocation, <<>>, <<>>, ManifestBody(2)),
                          Plain(404)}],
     uploads |-> {Plain(201)},
     follow |-> {},
     maxRedirects |-> {},
     callerHeaders |-> {},
     blobs |-> {},
     manifestStrs |-> {},
     dcds |-> {},
     headers |-> {}]

\* what the token endpoint may answer to the token request of call n
TokenResponses(m, n) ==
    {TokenResponse(200, TokenBody(JString(IssuedToken(n))))} \cup m.tokens

\* the constructor's authorization header
ConstructorHeaders(opts) ==
    IF ~Falsy(opts.token)
    THEN SetAuthHeaderFromAuthInfo(NewHeaders, AuthBearer(opts.token))
    ELSE IF ~Falsy(opts.username) \/ ~Falsy(opts.password)
    THEN SetAuthHeaderFromAuthInfo(NewHeaders,
            AuthBasic(Nullish(opts.username, ""), Nullish(opts.password, "")))
    ELSE SetAuthHeaderFromAuthInfo(NewHeaders, AuthNone)

(***************************************************************************)
(* Tasks.  pc is the await the operation is suspended at:                  *)
(*   "ping", "token"   the request of ping() / _getToken()                 *)
(*   "loginWrite"      login() at `await this.performLogin(...)`, resolved *)
(*   "afterLogin"      the operation at `await this.login(...)`, resolved  *)
(*   "primary"         the operation's own request                         *)
(*   "hop"             a request of _makeHttpRequest                       *)
(*   "uploadPut"       the PUT of blobUpload                               *)
(* sent is history: the requests the call has handed to fetch, in order,   *)
(* each with the status of its answer once it has one.                     *)
(***************************************************************************)

\* a ReadableStream by what became of it: not there, handed out and unread, read to
\* its end (data: the bytes it delivered), or errored at its end
Stream(state, data) == [state |-> state, data |-> data, err |-> NoError]

\* lastWrite is history: the call, scope and AuthInfo of the last assignment of login();
\* racing: the calls that were inside login() with another scope at that moment;
\* over: the call whose assignment this one replaced while racing with it, or 0
NoWrite == [call |-> 0, scope |-> Undefined, auth |-> NoAuthInfo, racing |-> {}, over |-> 0]

IdleTask ==
    [op |-> "none", pc |-> "idle", call |-> 0,
     scope |-> Undefined,        \* login: scope; performLogin: opts.scope
     pingRes |-> NoPingRes,      \* opts.pingRes as passed
     res |-> NoResponse,         \* performLogin: res
     tokenResp |-> NoResponse,   \* _getToken: resp
     resp |-> NoResponse,        \* getManifest: resp; putManifest: response;
                                 \* blobUpload: sessionResponse
     auth |-> NoAuthInfo,        \* the AuthInfo performLogin returned
     follow |-> TRUE, maxRedirects |-> 0, numRedirs |-> 0,    \* _makeHttpRequest
     req |-> NoRequest, ress |-> <<>>,
     flags |-> FALSE,            \* getManifest: acceptManifestLists and acceptOCIManifests
     value |-> JUndefined,       \* the value the operation resolved with
     stream |-> Stream("none", ""),        \* createBlobReadStream: the stream it resolved with
     manifestStr |-> "",         \* digestFromManifestStr: manifestStr
     arg |-> <<>>,               \* parseRepoAndRef: arg; constructor: opts.name
     defaultIndex |-> [kind |-> "undefined", str |-> <<>>,
                       index |-> [name |-> <<>>, official |-> FALSE, scheme |-> ""]],
     image |-> [result |-> Pending, digest |-> <<>>, tag |-> <<>>, canonicalRef |-> <<>>,
                repo |-> [result |-> Pending, official |-> FALSE, remoteName |-> <<>>,
                          localName |-> <<>>, canonicalName |-> <<>>,
                          index |-> [name |-> <<>>, official |-> FALSE, scheme |-> ""]]],
                                 \* parseRepoAndRef: what it returned; constructor: this.repo
     scheme |-> Undefined,       \* constructor: opts.scheme
     url |-> "",                 \* constructor: this._url
     dcd |-> <<>>,               \* _parseDockerContentDigest: dcd
     dcdInfo |-> [result |-> Pending, raw |-> "", algorithm |-> "", expectedDigest |-> ""],
     to_parse |-> [word |-> <<>>, space |-> FALSE, params |-> <<>>],
                                 \* Parse_WWW_Authenticate: to_parse
     parsed |-> ParseWWWAuthenticate(NoHeader),       \* the Parse_WWW_Authenticate made
     result |-> Pending,
     sent |-> <<>>]

NewTask(op, n) == [IdleTask EXCEPT !.op = op, !.call = n]

Unanswered == NoResponse.status      \* no answer yet
Sent(kind, hop, req) == [kind |-> kind, hop |-> hop, req |-> req, answer |-> Unanswered]

\* history: the last request of tk.sent was answered by resp
Answered(tk, resp) == [tk EXCEPT !.sent[Len(tk.sent)].answer = resp.status]

Callable(t) == task[t].pc \in {"idle", "done"} /\ calls < MaxCalls

\* the operation of task t goes on as tk, suspended at pc after issuing req
Send(t, tk, kind, hop, req, pc) ==
    task' = [task EXCEPT ![t] =
                [tk EXCEPT !.pc = pc, !.sent = Append(tk.sent, Sent(kind, hop, req))]]

\* the operation of task t goes on as tk, suspended at pc, and issued nothing
Goto(t, tk, pc) == task' = [task EXCEPT ![t] = [tk EXCEPT !.pc = pc]]

\* the operation of task t settles
Finish(t, tk, result) ==
    task' = [task EXCEPT ![t] = [tk EXCEPT !.pc = "done", !.result = result]]

\* the outcome o of performLogin, an operation going on after a throw
AuthOutcomeIgnoringThrow(t, tk, o) ==
    CASE o.kind \in {"ping", "token"} -> Send(t, tk, o.kind, 0, o.req, o.kind)
      [] o.kind = "throw" /\ tk.op \in {"login", "performLogin"} ->
            Finish(t, tk, Failed(o.err))
      [] o.kind = "throw" /\ tk.op \notin {"login", "performLogin"} ->
            Goto(t, tk, "afterLogin")
      [] o.kind = "return" /\ tk.op = "performLogin" ->
            Finish(t, [tk EXCEPT !.auth = o.auth], Ok)
      [] o.kind = "return" /\ tk.op # "performLogin" ->
            Goto(t, [tk EXCEPT !.auth = o.auth], "loginWrite")

\* the outcome o of a segment of performLogin, in the operation of task t
AuthOutcome(t, tk, o) ==
    CASE o.kind \in {"ping", "token"} -> Send(t, tk, o.kind, 0, o.req, o.kind)
      [] o.kind = "throw" -> Finish(t, tk, Failed(o.err))
      [] o.kind = "return" /\ tk.op = "performLogin" ->
            Finish(t, [tk EXCEPT !.auth = o.auth], Ok)
      [] o.kind = "return" /\ tk.op # "performLogin" ->
            Goto(t, [tk EXCEPT !.auth = o.auth], "loginWrite")

InitOf(m) ==
    /\ client \in m.clients
    /\ loggedIn = FALSE
    /\ loggedInScope = Undefined
    /\ authInfo = NoAuthInfo
    /\ headers = ConstructorHeaders(client)
    /\ task = [t \in Tasks |-> IdleTask]
    /\ calls = 0
    /\ lastWrite = NoWrite

\* login(opts) is called: the code up to its first await
CallLogin(t, m) ==
    \E optScope \in m.scopes, pingRes \in m.pingRes :
        LET scope == LoginScope(optScope, client.scopes)
            tk == [NewTask("login", calls + 1) EXCEPT !.scope = scope, !.pingRes = pingRes]
        IN
        /\ Callable(t)
        /\ calls' = calls + 1
        /\ IF AlreadyLoggedIn(loggedIn, loggedInScope, scope)
           THEN Finish(t, tk, Ok)
           ELSE AuthOutcome(t, [tk EXCEPT !.res = pingRes],
                            PerformLoginStart(client, scope, pingRes))
        /\ UNCHANGED <<client, session, lastWrite>>

\* performLogin(opts) is called directly: the code up to its first await
CallPerformLogin(t, m) ==
    \E optScope \in m.scopes, pingRes \in m.pingRes :
        LET tk == [NewTask("performLogin", calls + 1) EXCEPT
                        !.scope = optScope, !.pingRes = pingRes, !.res = pingRes]
        IN
        /\ Callable(t)
        /\ calls' = calls + 1
        /\ AuthOutcome(t, tk, PerformLoginStart(client, optScope, pingRes))
        /\ UNCHANGED <<client, session, lastWrite>>

OperationScopeDefault(op) == Undefined

\* the scope an operation passes to login()
OperationScope(op) == IF op \in {"putManifest", "blobUpload"} THEN PushScope ELSE Undefined

\* an operation that logs in is called: the code up to its first await
CallOperation(t, m) ==
    \E op \in m.ops, flags \in BOOLEAN :
        LET scope == LoginScope(OperationScope(op), client.scopes)
            tk == [NewTask(op, calls + 1) EXCEPT !.scope = scope, !.flags = flags]
        IN
        /\ Callable(t)
        /\ flags => op = "getManifest"
        /\ calls' = calls + 1
        /\ IF AlreadyLoggedIn(loggedIn, loggedInScope, scope)
           THEN Goto(t, tk, "afterLogin")
           ELSE AuthOutcome(t, tk, PerformLoginStart(client, scope, NoPingRes))
        /\ UNCHANGED <<client, session, lastWrite>>

\* ping() or supportsV2() is called: the request of ping()
CallPing(t, m) ==
    \E op \in {"ping", "supportsV2"} :
        /\ Callable(t)
        /\ calls' = calls + 1
        /\ Send(t, NewTask(op, calls + 1), "ping", 0, PingRequest(NewHeaders), "ping")
        /\ UNCHANGED <<client, session, lastWrite>>

SupportsV2ByStatus(resp) == resp.status \in {200, 401}

\* supportsV2 with the response of its ping
SupportsV2(resp) == "registry/2.0" \in {resp.apiVersion[i] : i \in 1..Len(resp.apiVersion)}
                    \/ resp.status \in {200, 401}

JBool(b) == [t |-> "boolean", v |-> b]

ErrorLacksResponse(resp) == resp.status = 0

\* err.resp of the error ping() threw for resp: the error carries a response
ErrorCarriesResponse(resp) == resp.status # 0

\* the request of ping() or supportsV2() is answered
ProbeAnswered(t, m) ==
    \E resp \in m.probes :
        LET cur == task[t]
            tk == Answered(cur, resp)
        IN
        /\ cur.pc = "ping"
        /\ cur.op \in {"ping", "supportsV2"}
        /\ IF tk.op = "ping"
           THEN IF RequestThrows(resp, {200, 401, 404})
                THEN Finish(t, tk, Failed(RequestError(resp)))
                ELSE Finish(t, [tk EXCEPT !.value = JNumber(resp.status)], Ok)
           ELSE IF RequestThrows(resp, {200, 401, 404})
                THEN IF ErrorCarriesResponse(resp)
                     THEN Finish(t, [tk EXCEPT !.value = JBool(FALSE)], Ok)
                     ELSE Finish(t, tk, Failed(RequestError(resp)))
                ELSE Finish(t, [tk EXCEPT !.res = resp, !.value = JBool(SupportsV2(resp))], Ok)
        /\ UNCHANGED <<client, session, calls, lastWrite>>

\* the ping of performLogin is answered: ping() returns or throws, performLogin goes on
PingAnswered(t, m) ==
    \E resp \in m.pings :
        LET cur == task[t]
            tk == Answered(cur, resp)
        IN
        /\ cur.pc = "ping"
        /\ cur.op \notin {"ping", "supportsV2"}
        /\ IF RequestThrows(resp, {200, 401})
           THEN Finish(t, tk, Failed(RequestError(resp)))
           ELSE AuthOutcome(t, [tk EXCEPT !.res = resp],
                            PerformLoginAfterPing(client, tk.scope, resp))
        /\ UNCHANGED <<client, session, calls, lastWrite>>

\* the token request is answered: _getToken returns or throws, performLogin returns
TokenAnswered(t, m) ==
    \E resp \in TokenResponses(m, task[t].call) :
        LET cur == task[t]
            tk == Answered(cur, resp)
        IN
        /\ cur.pc = "token"
        /\ IF RequestThrows(resp, {200, 401})
           THEN Finish(t, tk, Failed(RequestError(resp)))
           ELSE AuthOutcome(t, [tk EXCEPT !.tokenResp = resp], GetTokenAfter(resp))
        /\ UNCHANGED <<client, session, calls, lastWrite>>

\* login() after `await this.performLogin(...)`: the four assignments, and the return
LoginWrite(t) ==
    LET tk == task[t] IN
    /\ tk.pc = "loginWrite"
    /\ loggedIn' = TRUE
    /\ loggedInScope' = tk.scope
    /\ authInfo' = tk.auth
    /\ headers' = SetAuthHeaderFromAuthInfo(headers, tk.auth)
    /\ lastWrite' = [call |-> tk.call, scope |-> tk.scope, auth |-> tk.auth,
                     racing |-> {task[u].call : u \in {u \in Tasks :
                                    /\ task[u].pc \in {"ping", "token", "loginWrite"}
                                    /\ task[u].op \notin {"ping", "supportsV2", "performLogin"}
                                    /\ task[u].scope # tk.scope}},
                     over |-> IF tk.call \in lastWrite.racing THEN lastWrite.call ELSE 0]
    /\ IF tk.op = "login" THEN Finish(t, tk, Ok) ELSE Goto(t, tk, "afterLogin")
    /\ UNCHANGED <<client, calls>>

(***************************************************************************)
(* The operations' own requests.                                           *)
(***************************************************************************)
MEDIATYPE_MANIFEST_V2 == "application/vnd.docker.distribution.manifest.v2+json"
MEDIATYPE_MANIFEST_LIST_V2 == "application/vnd.docker.distribution.manifest.list.v2+json"
MEDIATYPE_OCI_MANIFEST_V1 == "application/vnd.oci.image.manifest.v1+json"
MEDIATYPE_OCI_MANIFEST_INDEX_V1 == "application/vnd.oci.image.index.v1+json"

RepoPath(rest) == Url(Registry, "/v2/" \o RemoteName \o rest, <<>>)

\* getManifest: the accept values appended to the copy of this._headers
ManifestAccept(acceptManifestLists, acceptOCIManifests) ==
    <<MEDIATYPE_MANIFEST_V2>>
    \o (IF acceptManifestLists THEN <<MEDIATYPE_MANIFEST_LIST_V2>> ELSE <<>>)
    \o (IF acceptOCIManifests THEN <<MEDIATYPE_OCI_MANIFEST_V1>> ELSE <<>>)
    \o (IF acceptOCIManifests /\ acceptManifestLists
        THEN <<MEDIATYPE_OCI_MANIFEST_INDEX_V1>> ELSE <<>>)

SessionHeadersShared(op, hdrs, ai) ==
    IF op \in {"putManifest", "blobUpload"} THEN SetAuthHeaderFromAuthInfo(hdrs, ai)
    ELSE IF op = "getManifest"
    THEN [hdrs EXCEPT !.accept = hdrs.accept \o <<MEDIATYPE_MANIFEST_V2>>]
    ELSE hdrs

\* this._headers after an operation built the headers of its request from the
\* session's hdrs and ai: every operation writes to a Headers object of its own
SessionHeadersAfterRequest(op, hdrs, ai) == hdrs

\* the request an operation issues after login(), from the session's hdrs and ai
OperationRequest(op, flags, hdrs, ai) ==
    CASE op = "listTags" ->
            FetchRequest("application/json", "GET", RepoPath("/tags/list"), hdrs)
      [] op = "getManifest" ->
            FetchRequest("application/json", "GET", RepoPath("/manifests/" \o Digest),
                [hdrs EXCEPT !.accept = hdrs.accept \o ManifestAccept(flags, flags)])
      [] op = "deleteManifest" ->
            FetchRequest("application/json", "DELETE", RepoPath("/manifests/" \o Digest), hdrs)
      [] op = "putManifest" ->
            FetchRequest("application/json", "PUT", RepoPath("/manifests/" \o Digest),
                SetAuthHeaderFromAuthInfo(
                    [NewHeaders EXCEPT !.contentType =
                        "application/vnd.docker.distribution.manifest.v1+json"], ai))
      [] op = "blobUpload" ->
            FetchRequest("application/json", "POST", RepoPath("/blobs/uploads/"),
                SetAuthHeaderFromAuthInfo(NewHeaders, ai))

\* blobUpload: the PUT sent to the URL of the POST
UploadPutRequestToPostUrl(location, ai) ==
    LET dest == RepoPath("/blobs/uploads/") IN
    FetchRequest("application/json", "PUT",
        [dest EXCEPT !.query = dest.query \o << <<"digest", Digest>> >>],
        SetAuthHeaderFromAuthInfo(
            [NewHeaders EXCEPT !.contentLength = "4",
                               !.contentType = "application/octet-stream"], ai))

\* blobUpload: the PUT that completes the upload, to the location of the POST's response
UploadPutRequest(location, ai) ==
    LET dest == ResolveLocation(location, RepoPath("/blobs/uploads/")) IN
    FetchRequest("application/json", "PUT",
        [dest EXCEPT !.query = dest.query \o << <<"digest", Digest>> >>],
        SetAuthHeaderFromAuthInfo(
            [NewHeaders EXCEPT !.contentLength = "4",
                               !.contentType = "application/octet-stream"], ai))

(***************************************************************************)
(* _makeHttpRequest, cut at the await of its loop.                         *)
(***************************************************************************)
LoopGuardInclusive(numRedirs, maxRedirects) == numRedirs <= maxRedirects

\* while (numRedirs < maxRedirects)
LoopGuard(numRedirs, maxRedirects) == numRedirs < maxRedirects

NextHopKeepsHeaders(hdrs) == hdrs

\* the headers of the request to a redirect target: new Headers()
NextHopHeaders(hdrs) == NewHeaders

ReturnsChainAlwaysFollowing(follow, resp) ==
    resp.status \notin {302, 307} \/ resp.location = NoLocation

\* the three returns of the loop body: the chain is returned after resp
ReturnsChain(follow, resp) ==
    ~follow \/ resp.status \notin {302, 307} \/ resp.location = NoLocation

TooManyRedirects == Error("TooManyRedirectsError", "maximum number of redirects hit", 0)

\* the loop from its test to the await of the next request, or the throw after it
LoopHead(t, tk) ==
    IF LoopGuard(tk.numRedirs, tk.maxRedirects)
    THEN Send(t, [tk EXCEPT !.numRedirs = tk.numRedirs + 1], "hop", tk.numRedirs + 1,
              FetchRequest("", tk.req.method, tk.req.url, tk.req.hdrs), "hop")
    ELSE Finish(t, tk, Failed(TooManyRedirects))

\* _makeHttpRequest(opts) from its first line
MakeHttpRequest(t, tk, method, url, hdrs, follow, maxRedirects) ==
    LoopHead(t, [tk EXCEPT !.follow = follow, !.maxRedirects = maxRedirects,
                           !.numRedirs = 0, !.ress = <<>>,
                           !.req = [method |-> method, url |-> url, hdrs |-> hdrs]])

\* splitIntoTwo cutting at the last separator
SplitIntoTwoAtLast(pieces) ==
    IF Len(pieces) <= 1 THEN pieces
    ELSE <<Join(SubSeq(pieces, 1, Len(pieces) - 1), ":"), pieces[Len(pieces)]>>

\* splitIntoTwo(dcd, ':') for a header value held as its pieces between the colons
SplitIntoTwo(pieces) ==
    IF Len(pieces) <= 1 THEN pieces ELSE <<pieces[1], Join(Tail(pieces), ":")>>

BadDigest(message) == Error("BadDigestError", message, 0)

\* _parseDockerContentDigest(dcd): how it ends and the fields of what it returns
ParseDockerContentDigest(dcd) ==
    LET parts == SplitIntoTwo(dcd)
        Raise(message) == [result |-> Failed(BadDigest(message)), raw |-> "",
                           algorithm |-> "", expectedDigest |-> ""]
    IN
    IF dcd = <<>> \/ Join(dcd, ":") = ""
    THEN Raise("missing \"Docker-Content-Digest\" header")
    ELSE IF Len(parts) # 2 THEN Raise("could not parse Docker-Content-Digest")
    ELSE IF parts[1] # "sha256" THEN Raise("Unsupported hash algorithm")
    ELSE [result |-> Ok, raw |-> Join(dcd, ":"),
          algorithm |-> parts[1], expectedDigest |-> parts[2]]

\* createBlobReadStream, taking the header of the last response of the chain
BlobStreamResultOfLast(ress) ==
    LET dcd == ress[Len(ress)].dcd
        parts == SplitIntoTwo(dcd)
    IN
    IF dcd = <<>> \/ Join(dcd, ":") = "" THEN Ok
    ELSE IF Len(parts) # 2 THEN Failed(BadDigest("could not parse Docker-Content-Digest"))
    ELSE IF parts[1] # "sha256" THEN Failed(BadDigest("Unsupported hash algorithm"))
    ELSE IF Join(dcd, ":") # Digest
    THEN Failed(BadDigest("Docker-Content-Digest header does not match given digest"))
    ELSE Ok

\* createBlobReadStream after _headOrGetBlob returned the chain ress
BlobStreamResult(ress) ==
    LET dcd == ress[1].dcd
        dcdInfo == ParseDockerContentDigest(dcd)
    IN
    IF dcd = <<>> \/ Join(dcd, ":") = "" THEN Ok
    ELSE IF dcdInfo.result # Ok THEN dcdInfo.result
    ELSE IF dcdInfo.raw # Digest
    THEN Failed(BadDigest("Docker-Content-Digest header does not match given digest"))
    ELSE Ok

\* crypto.createHash('sha256').update(data).digest('hex'), on the data of the model
Sha256Hex(data) ==
    CASE data = Layers.one -> "cafe"
      [] data = Layers.two -> "beef"
      [] data = Manifests.v2 -> "28a6"
      [] data = Manifests.v2Reordered -> "7d1f"
      [] data = Manifests.v2Spaced -> "e0c3"
      [] data = Manifests.v1 -> "51b9"
      [] data = Manifests.v1Signed -> "9a44"
      [] data = Manifests.v1String -> "c672"
      [] data = Manifests.null -> "74e2"
      [] data = Manifests.truncated -> "03fd"
      [] OTHER -> "e3b0"

\* dockerStream() of a response without content-md5, read to its end: the body
DockerStream(resp, bytes) == Stream("ended", bytes)

\* stream.pipeThrough(dcdInfo.validationStream), read to its end
ValidationStream(expectedDigest, stream) ==
    IF stream.state # "ended" \/ expectedDigest = Sha256Hex(stream.data) THEN stream
    ELSE [stream EXCEPT !.state = "errored",
                        !.err = BadDigest("Docker-Content-Digest (expected vs digest)")]

\* the stream createBlobReadStream returns, read to its end: the body of the last
\* response of the chain; the validation stream is not piped in (lines 820-821)
BlobStream(ress, bytes) == DockerStream(ress[Len(ress)], bytes)

\* the caller reads the stream of task t to its end
ReadStream(t, m) ==
    \E bytes \in m.blobs :
        LET tk == task[t] IN
        /\ tk.op = "createBlobReadStream" /\ tk.pc = "done"
        /\ tk.stream.state = "open"
        /\ task' = [task EXCEPT ![t].stream = BlobStream(tk.ress, bytes)]
        /\ UNCHANGED <<client, session, calls, lastWrite>>

JNull == [t |-> "null"]

\* JSON.parse(text) on the manifest strings of the model
JsonParse(text) ==
    LET v2 == JObject([schemaVersion |-> JNumber(2), layers |-> JArray(<<>>)]) IN
    CASE text \in {Manifests.v2, Manifests.v2Reordered, Manifests.v2Spaced} -> Returned(v2)
      [] text = Manifests.v1 -> Returned(JObject([schemaVersion |-> JNumber(1)]))
      [] text = Manifests.v1Signed ->
            Returned(JObject([schemaVersion |-> JNumber(1), signatures |-> JArray(<<>>)]))
      [] text = Manifests.v1String -> Returned(JObject([schemaVersion |-> JString("1")]))
      [] text = Manifests.null -> Returned(JNull)
      [] OTHER -> Thrown

\* digestFromManifestStr without the test of schemaVersion
DigestFromManifestStrAnyVersion(manifestStr) ==
    LET manifest == JsonParse(manifestStr) IN
    IF manifest.thrown
    THEN [result |-> Failed(Error("Error", "could not parse manifest", 0)),
          value |-> JUndefined]
    ELSE IF manifest.value = JNull
    THEN [result |-> Failed(Error("TypeError", "Cannot read properties of null", 0)),
          value |-> JUndefined]
    ELSE [result |-> Ok, value |-> JString("sha256:" \o Sha256Hex(manifestStr))]

\* digestFromManifestStr(manifestStr): how it ends and what it returns
DigestFromManifestStr(manifestStr) ==
    LET manifest == JsonParse(manifestStr) IN
    IF manifest.thrown
    THEN [result |-> Failed(Error("Error", "could not parse manifest", 0)),
          value |-> JUndefined]
    ELSE IF manifest.value = JNull
    THEN [result |-> Failed(Error("TypeError", "Cannot read properties of null", 0)),
          value |-> JUndefined]
    ELSE IF Get(manifest.value, "schemaVersion") = JNumber(1)
    THEN [result |-> Failed(Error("Error", "schemaVersion 1 is not supported", 0)),
          value |-> JUndefined]
    ELSE [result |-> Ok, value |-> JString("sha256:" \o Sha256Hex(manifestStr))]

\* digestFromManifestStr(manifestStr) is called
CallDigestFromManifestStr(t, m) ==
    \E manifestStr \in m.manifestStrs :
        LET out == DigestFromManifestStr(manifestStr) IN
        /\ Callable(t)
        /\ calls' = calls + 1
        /\ Finish(t, [NewTask("digestFromManifestStr", calls + 1) EXCEPT
                        !.manifestStr = manifestStr, !.value = out.value], out.result)
        /\ UNCHANGED <<client, session, lastWrite>>

\* parseRepoAndRef(arg, defaultIndex) is called
CallParseRepoAndRef(t, m) ==
    \E call \in m.refs :
        LET image == ParseRepoAndRef(call.arg, call.defaultIndex) IN
        /\ Callable(t)
        /\ calls' = calls + 1
        /\ Finish(t, [NewTask("parseRepoAndRef", calls + 1) EXCEPT
                        !.arg = call.arg, !.defaultIndex = call.defaultIndex,
                        !.image = image], image.result)
        /\ UNCHANGED <<client, session, lastWrite>>

\* new RegistryClientV2({name, scheme}): this.repo and this._url
CallUrlFromIndex(t, m) ==
    \E name \in m.names, scheme \in m.schemes :
        LET repo == ParseRepo(name, IdleTask.defaultIndex)
            made == UrlFromIndex(repo.index, scheme)
            tk == [NewTask("urlFromIndex", calls + 1) EXCEPT
                        !.arg = name, !.scheme = scheme, !.image.repo = repo]
        IN
        /\ Callable(t)
        /\ calls' = calls + 1
        /\ IF repo.result # Ok THEN Finish(t, tk, repo.result)
           ELSE Finish(t, [tk EXCEPT !.url = made.url], made.result)
        /\ UNCHANGED <<client, session, lastWrite>>

\* _parseDockerContentDigest(dcd) is called
CallParseDockerContentDigest(t, m) ==
    \E dcd \in m.dcds :
        LET dcdInfo == ParseDockerContentDigest(dcd) IN
        /\ Callable(t)
        /\ calls' = calls + 1
        /\ Finish(t, [NewTask("_parseDockerContentDigest", calls + 1) EXCEPT
                        !.dcd = dcd, !.dcdInfo = dcdInfo], dcdInfo.result)
        /\ UNCHANGED <<client, session, lastWrite>>

\* new Parse_WWW_Authenticate(to_parse) is called
CallParseWWWAuthenticate(t, m) ==
    \E to_parse \in m.headers :
        LET parsed == ParseWWWAuthenticate(
                          Header(to_parse.word, to_parse.space,
                                 SplitSeparators(to_parse.params)))
        IN
        /\ Callable(t)
        /\ calls' = calls + 1
        /\ Finish(t, [NewTask("Parse_WWW_Authenticate", calls + 1) EXCEPT
                        !.to_parse = to_parse, !.parsed = parsed],
                  IF parsed.thrown
                  THEN Failed(Error("TypeError", "Cannot read properties of null", 0))
                  ELSE Ok)
        /\ UNCHANGED <<client, session, lastWrite>>

\* _makeHttpRequest(opts) is called directly
CallMakeHttpRequest(t, m) ==
    \E follow \in m.follow, maxRedirects \in m.maxRedirects, hdrs \in m.callerHeaders :
        /\ Callable(t)
        /\ calls' = calls + 1
        /\ MakeHttpRequest(t, NewTask("_makeHttpRequest", calls + 1), "GET",
                           RepoPath("/blobs/" \o Digest), hdrs, follow, maxRedirects)
        /\ UNCHANGED <<client, session, lastWrite>>

LoginNotAwaited(pc) == pc \in {"afterLogin", "ping", "token"}

\* `await this.login(...)`: the operation goes on when login() has returned
LoginResolved(pc) == pc = "afterLogin"

\* the operation after `await this.login(...)`: its own request
AfterLogin(t) ==
    LET tk == task[t] IN
    /\ tk.op \in LoginOps
    /\ LoginResolved(tk.pc)
    /\ IF tk.op \in {"headBlob", "createBlobReadStream"}
       THEN MakeHttpRequest(t, tk, IF tk.op = "headBlob" THEN "HEAD" ELSE "GET",
                            RepoPath("/blobs/" \o Digest), headers, TRUE, DefaultMaxRedirects)
       ELSE Send(t, tk, "primary", 0, OperationRequest(tk.op, tk.flags, headers, authInfo),
                 "primary")
    /\ headers' = SessionHeadersAfterRequest(tk.op, headers, authInfo)
    /\ UNCHANGED <<client, loggedIn, loggedInScope, authInfo, calls, lastWrite>>

\* a request of _makeHttpRequest is answered: the rest of the loop body, and the loop head
HopAnswered(t, m) ==
    \E resp \in m.hops :
        LET cur == task[t]
            tk == Answered(cur, resp)
            chain == [tk EXCEPT !.ress = Append(tk.ress, [resp EXCEPT !.from = tk.req.url])]
        IN
        /\ cur.pc = "hop"
        /\ IF RequestThrows(resp, {200, 302, 307})
           THEN Finish(t, tk, Failed(RequestError(resp)))
           ELSE IF ReturnsChain(tk.follow, resp)
           THEN IF tk.op = "createBlobReadStream"
                THEN Finish(t, [chain EXCEPT !.stream =
                                    IF BlobStreamResult(chain.ress) = Ok
                                    THEN Stream("open", "") ELSE tk.stream],
                            BlobStreamResult(chain.ress))
                ELSE Finish(t, chain, Ok)
           ELSE LoopHead(t, [chain EXCEPT !.req =
                    [method |-> tk.req.method,
                     url |-> ResolveLocation(resp.location, tk.req.url),
                     hdrs |-> NextHopHeaders(tk.req.hdrs)]])
        /\ UNCHANGED <<client, session, calls, lastWrite>>

UploadError(message) == Error("UploadError", message, 0)
InvalidJson == Error("Error", "Invalid JSON in response", 0)
UndefinedAccess == Error("TypeError", "Cannot read properties of undefined", 0)

\* getManifest after its request returned resp (status 200 or 401): the task it ends as
ManifestResult(tk, resp) ==
    LET json == resp.body.json
        msg == GetRegistryErrorMessage(json)
    IN
    IF resp.body.text = "invalid" THEN [tk EXCEPT !.result = Failed(InvalidJson)]
    ELSE IF resp.status = 401
    THEN IF msg.thrown THEN [tk EXCEPT !.result = Failed(UndefinedAccess)]
         ELSE [tk EXCEPT !.result = Failed(Error("HttpError",
                    "Manifest " \o Digest \o " Not Found: " \o Str(msg.value), 401))]
    ELSE IF json.t = "undefined" THEN [tk EXCEPT !.result = Failed(UndefinedAccess)]
    ELSE IF Get(json, "schemaVersion") = JNumber(1)
    THEN [tk EXCEPT !.result = Failed(Error("Error", "schemaVersion 1 is not supported", 0))]
    ELSE [tk EXCEPT !.result = Ok, !.value = json]

\* the operation's own request is answered: the rest of the operation
PrimaryAnswered(t, m) ==
    \E resp \in (IF task[t].pc = "primary" THEN m.primary[task[t].op] ELSE {}) :
        LET cur == task[t]
            tk == Answered(cur, resp)
        IN
        /\ cur.pc = "primary"
        /\ CASE tk.op = "listTags" ->
                    IF RequestThrows(resp, {200})
                    THEN Finish(t, tk, Failed(RequestError(resp)))
                    ELSE IF resp.body.text = "invalid" THEN Finish(t, tk, Failed(InvalidJson))
                    ELSE Finish(t, [tk EXCEPT !.value = resp.body.json], Ok)
             [] tk.op = "getManifest" ->
                    IF RequestThrows(resp, {200, 401})
                    THEN Finish(t, tk, Failed(RequestError(resp)))
                    ELSE Goto(t, ManifestResult([tk EXCEPT !.resp = resp], resp),
                              "done")
             [] tk.op = "deleteManifest" ->
                    IF RequestThrows(resp, {200, 202})
                    THEN Finish(t, tk, Failed(RequestError(resp)))
                    ELSE IF resp.body.text = "invalid" THEN Finish(t, tk, Failed(InvalidJson))
                    ELSE Finish(t, tk, Ok)
             [] tk.op = "putManifest" ->
                    IF RequestThrows(resp, {201})
                    THEN Finish(t, tk, Failed(UploadError("Manifest upload failed.")))
                    ELSE Finish(t, [tk EXCEPT !.resp = resp, !.value =
                                JObject([digest |-> JString(Join(resp.dcd, ":")),
                                         location |-> JString(resp.location.path)])], Ok)
             [] tk.op = "blobUpload" ->
                    IF RequestThrows(resp, {202})
                    THEN Finish(t, tk, Failed(UploadError("Blob upload rejected.")))
                    ELSE IF resp.location = NoLocation
                    THEN Finish(t, [tk EXCEPT !.resp = resp], Failed(UploadError(
                                "No registry upload location header returned")))
                    ELSE Send(t, [tk EXCEPT !.resp = resp], "upload", 0,
                              UploadPutRequest(resp.location, authInfo), "uploadPut")
        /\ UNCHANGED <<client, session, calls, lastWrite>>

\* the PUT of blobUpload is answered
UploadPutAnswered(t, m) ==
    \E resp \in m.uploads :
        LET cur == task[t]
            tk == Answered(cur, resp)
        IN
        /\ cur.pc = "uploadPut"
        /\ IF RequestThrows(resp, {201})
           THEN Finish(t, tk, Failed(UploadError("Blob upload failed.")))
           ELSE Finish(t, tk, Ok)
        /\ UNCHANGED <<client, session, calls, lastWrite>>

(***************************************************************************)
(* Specifications.                                                         *)
(***************************************************************************)
NextOf(ts, m) ==
    \E t \in ts :
        \/ CallLogin(t, m)
        \/ CallPerformLogin(t, m)
        \/ CallOperation(t, m)
        \/ CallPing(t, m)
        \/ CallMakeHttpRequest(t, m)
        \/ ProbeAnswered(t, m)
        \/ PingAnswered(t, m)
        \/ TokenAnswered(t, m)
        \/ LoginWrite(t)
        \/ AfterLogin(t)
        \/ PrimaryAnswered(t, m)
        \/ HopAnswered(t, m)
        \/ UploadPutAnswered(t, m)
        \/ ReadStream(t, m)
        \/ CallDigestFromManifestStr(t, m)

\* one caller at a time: task "a" calls one operation after the other
Init == InitOf(FullMenu)
Next == NextOf({"a"}, FullMenu)
Spec == Init /\ [][Next]_vars

\* two callers at once: the operations of tasks "a" and "b" interleave at their awaits
InitConcurrent == InitOf(ConcurrentMenu)
NextConcurrent ==
    \E t \in Tasks :
        \/ CallLogin(t, ConcurrentMenu)
        \/ CallOperation(t, ConcurrentMenu)
        \/ PingAnswered(t, ConcurrentMenu)
        \/ TokenAnswered(t, ConcurrentMenu)
        \/ LoginWrite(t)
        \/ AfterLogin(t)
        \/ PrimaryAnswered(t, ConcurrentMenu)
        \/ HopAnswered(t, ConcurrentMenu)
        \/ UploadPutAnswered(t, ConcurrentMenu)
SpecConcurrent == InitConcurrent /\ [][NextConcurrent]_vars

\* a caller of _makeHttpRequest, every request of which is answered or fails in
\* the end: fetch settles each promise, with a response or with a rejection
SpecFollow ==
    /\ Init
    /\ [][\E t \in {"a"} : \/ CallMakeHttpRequest(t, FullMenu)
                             \/ HopAnswered(t, FullMenu)]_vars
    /\ WF_vars(HopAnswered("a", FullMenu))

\* a caller parses one repository string after the other and makes clients; the
\* parsers read nothing of the client, so one client is enough
SpecRepo ==
    InitConcurrent /\ [][\E t \in {"a"} : \/ CallParseRepoAndRef(t, FullMenu)
                                           \/ CallUrlFromIndex(t, FullMenu)]_vars

\* a caller applies the parsers one after the other
SpecParse ==
    Init /\ [][\E t \in {"a"} : \/ CallParseWWWAuthenticate(t, FullMenu)
                                 \/ CallParseDockerContentDigest(t, FullMenu)]_vars

(***************************************************************************)
(* Properties.  What they read of a call's history:                        *)
(***************************************************************************)
AuthKinds == {"ping", "token"}

\* the requests of _makeHttpRequest the call has issued
HopsSent(tk) == Cardinality({i \in DOMAIN tk.sent : tk.sent[i].kind = "hop"})

\* the call has entered _makeHttpRequest
InFollower(tk) == tk.req # NoRequest

\* a response the follower follows, and one after which it returns the chain
IsRedirect(resp) == resp.status \in {302, 307} /\ resp.location # NoLocation
IsTerminal(follow, resp) == ~follow \/ ~IsRedirect(resp)

\* C1: login() called while the client is logged in with the same effective scope
\* returns at once, issues no ping and no token request and changes nothing; called
\* with another scope (or not logged in) it does not return at once but negotiates
\* again (one ping unless a challenge was handed in), never more than one ping and
\* one token request per call, and when it returns it has replaced loggedInScope and
\* authInfo by those of this call.
C1_ScopeMemoization ==
    [][\A t \in Tasks :
        LET tk == task'[t] IN
        /\ (calls' = calls + 1 /\ tk.call = calls' /\ tk.op = "login") =>
                IF loggedIn /\ loggedInScope = tk.scope
                THEN /\ tk.pc = "done" /\ tk.result = Ok
                     /\ tk.sent = <<>>
                     /\ session' = session
                ELSE /\ ~(tk.pc = "done" /\ tk.result = Ok)
                     /\ session' = session
                     /\ tk.pingRes.wwwAuth = NoHeader =>
                            Len(tk.sent) = 1 /\ tk.sent[1].kind = "ping"
        /\ tk.op = "login" =>
                /\ \A k \in AuthKinds :
                        Cardinality({i \in DOMAIN tk.sent : tk.sent[i].kind = k}) <= 1
                /\ \A i \in DOMAIN tk.sent : tk.sent[i].kind \in AuthKinds
        /\ (tk.op = "login" /\ task[t].call = tk.call /\ task[t].pc # "done"
                /\ tk.pc = "done" /\ tk.result = Ok) =>
                /\ loggedIn' /\ loggedInScope' = tk.scope /\ authInfo' = tk.auth
                /\ tk.auth.type \in {"None", "Basic", "Bearer"}
    ]_vars

\* the second of two calls is a login() with the scope of the first, and it returned
\* without a request
C1_Witness ==
    \E t \in Tasks :
        /\ task[t].op = "login" /\ task[t].call = 2 /\ task[t].pc = "done"
        /\ task[t].result = Ok /\ task[t].sent = <<>>
        /\ lastWrite.call = 1 /\ loggedIn /\ loggedInScope = task[t].scope

\* C2: an operation that logs in issues its own request (primary, redirect hop or
\* upload PUT) only when its login() has returned: every ping and token request
\* of the call was issued before and has been answered, none is issued after, the
\* call is not inside login() any more, and the client is logged in with the scope
\* the operation asked for.
C2_PrimaryAfterLogin ==
    \A t \in Tasks :
        LET tk == task[t] IN
        tk.op \in LoginOps =>
            /\ tk.pc \in {"ping", "token", "loginWrite", "afterLogin"} =>
                    \A i \in DOMAIN tk.sent : tk.sent[i].kind \in AuthKinds
            /\ \A j \in DOMAIN tk.sent :
                    tk.sent[j].kind \notin AuthKinds =>
                        /\ \A i \in 1..(j - 1) :
                                tk.sent[i].kind \in AuthKinds =>
                                    tk.sent[i].answer \in {200, 401}
                        /\ \A i \in (j + 1)..Len(tk.sent) : tk.sent[i].kind \notin AuthKinds
                        /\ loggedIn /\ loggedInScope = tk.scope

\* putManifest issued its PUT after a ping and a token request
C2_Witness ==
    \E t \in Tasks :
        /\ task[t].op = "putManifest" /\ Len(task[t].sent) = 3
        /\ task[t].sent[1].kind = "ping" /\ task[t].sent[1].answer = 401
        /\ task[t].sent[2].kind = "token" /\ task[t].sent[2].answer = 200
        /\ task[t].sent[3].kind = "primary"

\* C3: with logins interleaving, loggedInScope, authInfo and the authorization
\* header are at every state those of one login, the one that assigned last: the
\* scope it asked for, the AuthInfo its own negotiation returned (a Bearer token is
\* the one issued to that call, for a token request carrying that scope) and the
\* header made from that AuthInfo; a login that raced with another negotiated for
\* itself.
C3_LastLoginWins ==
    loggedIn =>
        /\ loggedInScope = lastWrite.scope
        /\ authInfo = lastWrite.auth
        /\ headers.authorization =
                CASE authInfo.type = "Bearer" -> "Bearer " \o authInfo.token
                  [] authInfo.type = "Basic" ->
                        "Basic " \o Btoa(authInfo.username \o ":" \o authInfo.password)
                  [] OTHER -> Undefined
        /\ authInfo.type = "Bearer" => authInfo.token = IssuedToken(lastWrite.call)
        /\ \A t \in Tasks :
                LET tk == task[t] IN
                /\ (tk.call = lastWrite.call /\ tk.pc # "idle") =>
                        /\ tk.scope = loggedInScope
                        /\ tk.auth = authInfo
                        /\ authInfo.type = "Bearer" =>
                                \E i \in DOMAIN tk.sent :
                                    /\ tk.sent[i].kind = "token"
                                    /\ tk.sent[i].answer = 200
                                    /\ \E q \in DOMAIN tk.sent[i].req.url.query :
                                            tk.sent[i].req.url.query[q] =
                                                <<"scope", loggedInScope>>
                /\ (lastWrite.over # 0 /\ tk.call \in {lastWrite.call, lastWrite.over}) =>
                        tk.sent # <<>> /\ tk.sent[1].kind = "ping"

\* two login() calls with different scopes ran at once, both returned, and the one
\* that assigned second replaced what the first had assigned
C3_Witness ==
    /\ lastWrite.over # 0
    /\ authInfo.type = "Bearer"
    /\ \A t \in Tasks : task[t].op = "login" /\ task[t].pc = "done" /\ task[t].result = Ok
    /\ \E t, u \in Tasks :
            /\ task[t].call = lastWrite.call /\ task[u].call = lastWrite.over
            /\ task[t].scope # task[u].scope
            /\ loggedInScope = task[t].scope

\* C4: a step changes loggedIn, loggedInScope, authInfo or this._headers only if
\* it is the assignment block of login(): no call of ping, supportsV2, performLogin
\* or _makeHttpRequest, no answer to a ping, token or operation request and no
\* operation issuing its own request changes any of the four.
C4_SessionWrittenOnlyByLogin ==
    [][session' # session =>
        \E t \in Tasks :
            /\ task[t].pc = "loginWrite"
            /\ task[t].op \in LoginOps \cup {"login"}
            /\ task'[t].pc \in {"done", "afterLogin"}
            /\ task'[t].sent = task[t].sent
    ]_vars

\* getManifest sent accept values of its own and a bearer token, and returned, and
\* this._headers still has no accept value
C4_Witness ==
    \E t \in Tasks :
        /\ task[t].op = "getManifest" /\ task[t].pc = "done" /\ task[t].result = Ok
        /\ task[t].sent[Len(task[t].sent)].kind = "primary"
        /\ Len(task[t].sent[Len(task[t].sent)].req.hdrs.accept) >= 2
        /\ headers.accept = <<>>
        /\ authInfo.type = "Bearer" /\ headers.authorization = "Bearer " \o authInfo.token

\* C5: while every answer to the follower so far is a 302 or 307 with a location,
\* the follower has issued one request more than it has answers and raises
\* nothing, until it has maxRedirects answers: then, and only then, it raises
\* TooManyRedirectsError, having issued exactly maxRedirects requests.
C5_RedirectBound ==
    \A t \in Tasks :
        LET tk == task[t]
            n == Len(tk.ress)
        IN
        (/\ InFollower(tk) /\ tk.follow
         /\ \A i \in DOMAIN tk.sent :
                tk.sent[i].kind = "hop" => tk.sent[i].answer \in {Unanswered, 302, 307}
         /\ \A i \in 1..n : tk.ress[i].location # NoLocation) =>
            IF n = tk.maxRedirects
            THEN /\ tk.pc = "done" /\ tk.result = Failed(TooManyRedirects)
                 /\ HopsSent(tk) = tk.maxRedirects
            ELSE /\ n < tk.maxRedirects
                 /\ tk.pc = "hop" /\ tk.result = Pending
                 /\ HopsSent(tk) = n + 1

\* headBlob, with the default of three, got three redirects and raised the error
C5_Witness ==
    \E t \in Tasks :
        /\ task[t].op = "headBlob" /\ task[t].maxRedirects = DefaultMaxRedirects
        /\ task[t].result = Failed(TooManyRedirects)
        /\ HopsSent(task[t]) = 3
        /\ \A i \in 1..3 : task[t].ress[i].status = 307

\* C6 as stated: TooManyRedirectsError is raised only when the follower got more
\* than maxRedirects redirects (for a maxRedirects of one or more).
C6_Original ==
    \A t \in Tasks :
        (/\ InFollower(task[t]) /\ task[t].maxRedirects >= 1
         /\ task[t].result = Failed(TooManyRedirects)) =>
            Len(task[t].ress) > task[t].maxRedirects

\* C6, amended: the follower never issues more than maxRedirects requests.  It
\* raises TooManyRedirectsError exactly when it followed maxRedirects redirects; a
\* chain of k redirects and then a response it does not follow is returned, and
\* then k < maxRedirects.
C6_RedirectBudget ==
    \A t \in Tasks :
        LET tk == task[t]
            n == Len(tk.ress)
        IN
        InFollower(tk) =>
            /\ HopsSent(tk) <= tk.maxRedirects
            /\ tk.result = Failed(TooManyRedirects) <=>
                    /\ tk.pc = "done" /\ n = tk.maxRedirects
                    /\ \A i \in 1..n : IsRedirect(tk.ress[i]) /\ tk.follow
            /\ (n >= 1 /\ IsTerminal(tk.follow, tk.ress[n])) =>
                    /\ n - 1 < tk.maxRedirects
                    /\ \A i \in 1..(n - 1) : IsRedirect(tk.ress[i])
                    /\ tk.pc = "done" /\ tk.result # Failed(TooManyRedirects)
                    /\ tk.op # "createBlobReadStream" => tk.result = Ok

\* with maxRedirects three, two redirects and then a 200: the chain is returned
C6_Witness ==
    \E t \in Tasks :
        /\ task[t].op = "_makeHttpRequest" /\ task[t].maxRedirects = 3 /\ task[t].follow
        /\ task[t].pc = "done" /\ task[t].result = Ok
        /\ Len(task[t].ress) = 3 /\ task[t].ress[3].status = 200
        /\ IsRedirect(task[t].ress[1]) /\ IsRedirect(task[t].ress[2])

\* C7: every request of the follower after the first of its chain carries no
\* authorization, accept, content-type or content-length header, whatever the
\* first one carried.
C7_RedirectTargetsGetNoHeaders ==
    \A t \in Tasks :
        \A i \in DOMAIN task[t].sent :
            LET e == task[t].sent[i] IN
            (e.kind = "hop" /\ e.hop > 1) =>
                /\ e.req.hdrs.authorization = Undefined
                /\ e.req.hdrs.accept = <<>>
                /\ e.req.hdrs.contentType = Undefined
                /\ e.req.hdrs.contentLength = Undefined

\* headBlob sent its bearer token to the registry, was redirected to another
\* origin, and its request there carries no authorization
C7_Witness ==
    \E t \in Tasks :
        \E i \in DOMAIN task[t].sent :
            /\ i < Len(task[t].sent)
            /\ task[t].sent[i].kind = "hop" /\ task[t].sent[i].hop = 1
            /\ authInfo.type = "Bearer"
            /\ task[t].sent[i].req.hdrs.authorization = "Bearer " \o authInfo.token
            /\ task[t].sent[i + 1].hop = 2
            /\ task[t].sent[i + 1].req.url.origin # Registry
            /\ task[t].sent[i + 1].req.hdrs.authorization = Undefined

\* C8: the chain of the follower holds the answers to its requests in the order
\* of the requests; the first is the answer of the registry to the request for the
\* path the caller gave; every element but the last is a 302 or 307 with a location,
\* and the next request went to that location; as soon as an answer is not such a
\* redirect, or followRedirects is false, the follower returns the chain and issues
\* nothing more; with followRedirects false the chain has exactly one element.
C8_ChainWellFormed ==
    \A t \in Tasks :
        LET tk == task[t]
            n == Len(tk.ress)
            off == Len(tk.sent) - HopsSent(tk)
        IN
        InFollower(tk) =>
            /\ \A i \in 1..HopsSent(tk) :
                    tk.sent[off + i].kind = "hop" /\ tk.sent[off + i].hop = i
            /\ n <= HopsSent(tk)
            /\ \A i \in 1..n :
                    /\ tk.ress[i].from = tk.sent[off + i].req.url
                    /\ tk.ress[i].status = tk.sent[off + i].answer
            /\ n >= 1 => tk.ress[1].from = RepoPath("/blobs/" \o Digest)
            /\ \A i \in 1..(n - 1) :
                    /\ tk.follow
                    /\ tk.ress[i].status \in {302, 307}
                    /\ tk.ress[i].location # NoLocation
                    /\ tk.ress[i + 1].from.path = tk.ress[i].location.path
                    /\ tk.ress[i + 1].from.origin =
                            IF tk.ress[i].location.abs THEN tk.ress[i].location.origin
                            ELSE tk.ress[i].from.origin
            /\ (n >= 1 /\ IsTerminal(tk.follow, tk.ress[n])) =>
                    tk.pc = "done" /\ HopsSent(tk) = n
            /\ (tk.pc = "done" /\ tk.result = Ok) =>
                    /\ n >= 1
                    /\ IsTerminal(tk.follow, tk.ress[n])
                    /\ ~tk.follow => n = 1

\* with followRedirects false the follower got a redirect and returned it alone
C8_Witness ==
    \E t \in Tasks :
        /\ task[t].op = "_makeHttpRequest" /\ ~task[t].follow
        /\ task[t].pc = "done" /\ task[t].result = Ok
        /\ Len(task[t].ress) = 1 /\ IsRedirect(task[t].ress[1])
        /\ HopsSent(task[t]) = 1

\* C9 as stated: handed a ping response with status 200 and no www-authenticate,
\* performLogin issues no request and returns {type: 'None'}.
C9_Original ==
    \A t \in Tasks :
        LET tk == task[t] IN
        (/\ tk.op = "performLogin"
         /\ tk.pingRes.status = 200 /\ tk.pingRes.wwwAuth = NoHeader) =>
            /\ tk.sent = <<>>
            /\ tk.pc = "done" /\ tk.result = Ok /\ tk.auth = AuthNone

\* C9, amended: handed a ping response with status 200 and no www-authenticate,
\* performLogin does not use it: it pings once more.  When that ping is answered
\* with status 200 it returns {type: 'None'} and has issued nothing but the ping;
\* and it returns {type: 'None'} in no other case.
C9_RePingThenNone ==
    \A t \in Tasks :
        LET tk == task[t] IN
        (/\ tk.op = "performLogin"
         /\ tk.pingRes.status = 200 /\ tk.pingRes.wwwAuth = NoHeader) =>
            /\ Len(tk.sent) >= 1
            /\ tk.sent[1].kind = "ping"
            /\ tk.sent[1].req.url = Url(Registry, "/v2/", <<>>)
            /\ tk.sent[1].answer = 200 =>
                    /\ tk.pc = "done" /\ tk.result = Ok /\ tk.auth = AuthNone
                    /\ Len(tk.sent) = 1
            /\ tk.auth = AuthNone => tk.sent[1].answer = 200

\* performLogin, handed such a response, pinged, was answered 200 and returned None
C9_Witness ==
    \E t \in Tasks :
        /\ task[t].op = "performLogin"
        /\ task[t].pingRes.status = 200 /\ task[t].pingRes.wwwAuth = NoHeader
        /\ Len(task[t].sent) = 1 /\ task[t].sent[1].answer = 200
        /\ task[t].pc = "done" /\ task[t].result = Ok /\ task[t].auth = AuthNone

\* C10: when the challenge performLogin works from (the one handed in, or the one
\* of its own ping's 401) parses and its scheme is "basic" in any letter case,
\* performLogin returns {type: 'Basic'} with the client's username and password,
\* '' for one that is not set, and the call has issued no token request.
C10_BasicChallenge ==
    \A t \in Tasks :
        LET tk == task[t]
            parsed == ParseWWWAuthenticate(tk.res.wwwAuth)
        IN
        (/\ tk.op \in LoginOps \cup {"login", "performLogin"}
         /\ tk.res.wwwAuth # NoHeader
         /\ tk.pingRes.wwwAuth # NoHeader \/ tk.res.status = 401
         /\ ~parsed.thrown /\ parsed.err = Undefined
         /\ ToLowerCase(parsed.scheme) = <<"b", "a", "s", "i", "c">>) =>
            /\ tk.auth = [type |-> "Basic",
                          username |-> IF client.username = Undefined
                                       THEN "" ELSE client.username,
                          password |-> IF client.password = Undefined
                                       THEN "" ELSE client.password]
            /\ \A i \in DOMAIN tk.sent : tk.sent[i].kind # "token"
            /\ tk.op = "performLogin" => tk.pc = "done" /\ tk.result = Ok

\* a client with a password and no username got the challenge "BASIC realm=..."
\* from its ping and returned Basic with '' as the username
C10_Witness ==
    \E t \in Tasks :
        /\ task[t].op = "performLogin" /\ task[t].pc = "done" /\ task[t].result = Ok
        /\ task[t].res.wwwAuth = Challenges.basicUpper
        /\ client.username = Undefined
        /\ task[t].auth = AuthBasic("", "secret")
        /\ Len(task[t].sent) = 1 /\ task[t].sent[1].kind = "ping"

\* the header performLogin takes its challenge from, once it has one: the one handed
\* in as pingRes, or the one of the 401 answer to its own ping
HasChallenge(tk) ==
    /\ tk.op \in LoginOps \cup {"login", "performLogin"}
    /\ tk.res.wwwAuth # NoHeader
    /\ tk.pingRes.wwwAuth # NoHeader \/ tk.res.status = 401

\* that challenge parses and its scheme is word, in any letter case
HasScheme(tk, word) ==
    LET parsed == ParseWWWAuthenticate(tk.res.wwwAuth) IN
    /\ HasChallenge(tk)
    /\ ~parsed.thrown /\ parsed.err = Undefined
    /\ ToLowerCase(parsed.scheme) = word

TokenRequests(tk) == {i \in DOMAIN tk.sent : tk.sent[i].kind = "token"}

\* C11: a token request is issued only by performLogin (called directly, by login()
\* or by an operation's login()), only when the challenge it works from has the
\* scheme "bearer" in any letter case, and at most once; it goes to the realm of the
\* challenge with the service of the challenge and the requested scope as query
\* parameters; a bearer challenge leads to a token request unless the realm is
\* refused; an AuthInfo of type Bearer carries the token that request was answered
\* with.  After a 200 ping or for a basic challenge there is no token request.
C11_TokenOnlyAfterBearer ==
    \A t \in Tasks :
        LET tk == task[t]
            parms == ParseWWWAuthenticate(tk.res.wwwAuth).parms
            bearer == HasScheme(tk, <<"b", "e", "a", "r", "e", "r">>)
        IN
        /\ TokenRequests(tk) # {} => bearer /\ Cardinality(TokenRequests(tk)) = 1
        /\ \A i \in TokenRequests(tk) :
                LET url == tk.sent[i].req.url
                    query == {url.query[q] : q \in DOMAIN url.query}
                IN
                /\ url.origin \in {parms.realm, "https://" \o parms.realm,
                                   "http://" \o parms.realm}
                /\ <<"service", parms.service>> \in query
                /\ {p \in query : p[1] = "scope"} =
                        IF tk.scope \in {Undefined, ""} THEN {}
                        ELSE {<<"scope", tk.scope>>}
                /\ \A j \in 1..(i - 1) :
                        tk.sent[j].kind = "ping" /\ tk.sent[j].answer = 401
        /\ (bearer /\ TokenRequests(tk) = {}) =>
                /\ tk.pc = "done" /\ tk.result.state = "error"
                /\ tk.result.err.message = "unsupported scheme for WWW-Authenticate realm"
        /\ tk.auth.type = "Bearer" =>
                /\ \E i \in TokenRequests(tk) : tk.sent[i].answer = 200
                /\ tk.auth = [type |-> "Bearer", token |-> IssuedToken(tk.call)]
        /\ (HasScheme(tk, <<"b", "a", "s", "i", "c">>)
                \/ \E i \in DOMAIN tk.sent :
                        tk.sent[i].kind = "ping" /\ tk.sent[i].answer = 200) =>
                TokenRequests(tk) = {}

\* performLogin pinged, got the challenge "bearer realm=..." in lower case, asked
\* the token server and returned the token as Bearer
C11_Witness ==
    \E t \in Tasks :
        /\ task[t].op = "performLogin" /\ task[t].pc = "done" /\ task[t].result = Ok
        /\ task[t].res.wwwAuth = Challenges.bearerLower
        /\ Len(task[t].sent) = 2 /\ task[t].sent[2].kind = "token"
        /\ task[t].scope = PushScope
        /\ task[t].auth = AuthBearer(IssuedToken(task[t].call))

\* C12: performLogin has returned an AuthInfo only if its own ping was answered
\* 200 (None), or its challenge parsed with the scheme basic (Basic), or its
\* challenge parsed with the scheme bearer and the token request was answered 200
\* (Bearer).  It has raised and returned nothing when its ping was answered with
\* a status other than 200 and 401 or not at all, when the 401 carried no
\* www-authenticate, when the challenge does not parse, and when the scheme is
\* neither basic nor bearer ("unsupported auth scheme").
C12_PerformLoginOutcomes ==
    \A t \in Tasks :
        LET tk == task[t]
            parsed == ParseWWWAuthenticate(tk.res.wwwAuth)
            pinged == tk.sent # <<>> /\ tk.sent[1].kind = "ping"
            raised == tk.pc = "done" /\ tk.result.state = "error" /\ tk.auth = NoAuthInfo
        IN
        tk.op \in {"performLogin", "login"} =>
            /\ tk.op = "performLogin" => (tk.auth # NoAuthInfo <=> tk.result = Ok)
            /\ tk.auth # NoAuthInfo =>
                    \/ /\ tk.auth = [type |-> "None"]
                       /\ pinged /\ tk.sent[1].answer = 200 /\ Len(tk.sent) = 1
                    \/ /\ tk.auth.type = "Basic"
                       /\ HasScheme(tk, <<"b", "a", "s", "i", "c">>)
                    \/ /\ tk.auth.type = "Bearer"
                       /\ HasScheme(tk, <<"b", "e", "a", "r", "e", "r">>)
                       /\ tk.sent[Len(tk.sent)].kind = "token"
                       /\ tk.sent[Len(tk.sent)].answer = 200
            /\ (pinged /\ tk.sent[1].answer \notin {Unanswered, 200, 401}) =>
                    raised /\ tk.result.err.name \in {"HttpError", "FetchError"}
            /\ (pinged /\ tk.sent[1].answer = 401 /\ tk.res.wwwAuth = NoHeader) =>
                    /\ raised
                    /\ tk.result.err =
                        Error("HttpError", "missing WWW-Authenticate header from GET /v2/", 401)
            /\ (HasChallenge(tk) /\ (parsed.thrown \/ parsed.err # Undefined)) => raised
            /\ (/\ HasChallenge(tk) /\ ~parsed.thrown /\ parsed.err = Undefined
                /\ ToLowerCase(parsed.scheme) \notin
                        {<<"b", "a", "s", "i", "c">>, <<"b", "e", "a", "r", "e", "r">>}) =>
                    /\ raised
                    /\ tk.result.err = Error("Error", "unsupported auth scheme", 0)

\* performLogin got a Digest challenge from its ping and raised
C12_Witness ==
    \E t \in Tasks :
        /\ task[t].op = "performLogin" /\ task[t].pc = "done"
        /\ task[t].res.wwwAuth = Challenges.digest
        /\ task[t].result = Failed(Error("Error", "unsupported auth scheme", 0))
        /\ task[t].auth = NoAuthInfo

\* the authorization header that goes with an AuthInfo
AuthorizationOf(ai) ==
    CASE ai.type = "Bearer" -> "Bearer " \o ai.token
      [] ai.type = "Basic" -> "Basic " \o Btoa(ai.username \o ":" \o ai.password)
      [] OTHER -> Undefined

\* C13: once login() has succeeded, the authorization of this._headers is the one
\* of the negotiated AuthInfo (none at all for None), whatever the constructor
\* had put there, and every request an operation issues for itself to the
\* registry (its primary request, the first request of its redirect chain, its
\* upload PUT) carries exactly that authorization.
C13_HeaderFollowsAuthInfo ==
    loggedIn =>
        /\ authInfo.type \in {"None", "Basic", "Bearer"}
        /\ headers.authorization = AuthorizationOf(authInfo)
        /\ \A t \in Tasks :
                task[t].op \in LoginOps =>
                    \A i \in DOMAIN task[t].sent :
                        LET e == task[t].sent[i] IN
                        (e.kind \in {"primary", "upload"} \/ (e.kind = "hop" /\ e.hop = 1)) =>
                            e.req.hdrs.authorization = AuthorizationOf(authInfo)

\* a client constructed with opts.token logged in to a registry that wants no
\* authentication, and its listTags request went out without authorization
C13_Witness ==
    /\ client.token = "ctor-token"
    /\ ConstructorHeaders(client).authorization = "Bearer ctor-token"
    /\ loggedIn /\ authInfo = AuthNone
    /\ headers.authorization = Undefined
    /\ \E t \in Tasks :
            /\ task[t].op = "listTags" /\ task[t].pc = "done"
            /\ task[t].sent[Len(task[t].sent)].kind = "primary"
            /\ task[t].sent[Len(task[t].sent)].req.hdrs.authorization = Undefined

\* the call's token request has been answered with status a
TokenAnsweredWith(tk, a) ==
    \E i \in TokenRequests(tk) : tk.sent[i].answer = a

\* the messages the 401 bodies of the token server can yield
TokenMessages ==
    {"a", "b", "c", "d", "e", "incorrect username or password", "undefined",
     "[object Object]", ""}

\* the call raised and login() did not mark the client logged in for it
RaisedNotLoggedIn(tk) ==
    /\ tk.pc = "done" /\ tk.result.state = "error" /\ tk.auth = NoAuthInfo
    /\ lastWrite.call # tk.call

\* C14 as stated: the token fetcher returns a token only for a 200 whose body has
\* a string token; a 401 raises "Registry auth failed: <message>"; a 200 without
\* a string token raises "authorization server did not include a token"; any
\* other status raises; and in no failure case is the client marked logged in.
C14_Original ==
    \A t \in Tasks :
        LET tk == task[t]
            token == Get(tk.tokenResp.body.json, "token")
        IN
        /\ tk.auth.type = "Bearer" =>
                TokenAnsweredWith(tk, 200) /\ token.t = "string" /\ tk.auth.token = token.v
        /\ TokenAnsweredWith(tk, 401) =>
                /\ RaisedNotLoggedIn(tk)
                /\ tk.result.err.name = "HttpError"
                /\ \E m \in TokenMessages :
                        tk.result.err.message = "Registry auth failed: " \o m
        /\ (TokenAnsweredWith(tk, 200) /\ token.t # "string") =>
                /\ RaisedNotLoggedIn(tk)
                /\ tk.result.err.message =
                        "authorization server did not include a token in the response"
        /\ (\E i \in TokenRequests(tk) : tk.sent[i].answer \notin {Unanswered, 200, 401}) =>
                RaisedNotLoggedIn(tk)

\* j.errors[0].message, undefined when j has no such array
FirstErrorMessage(j) ==
    IF IsArray(Get(j, "errors")) THEN Get(First(Get(j, "errors")), "message")
    ELSE JUndefined

\* the messages the stated priority allows for a parsed body; the last step,
\* the stringified body, is left open
StatedMessages(body) ==
    IF FirstErrorMessage(Get(body, "body")).t = "string"
    THEN {FirstErrorMessage(Get(body, "body")).v}
    ELSE IF Get(Get(body, "body"), "details").t = "string"
    THEN {Get(Get(body, "body"), "details").v}
    ELSE IF FirstErrorMessage(body).t = "string" THEN {FirstErrorMessage(body).v}
    ELSE IF Get(body, "message").t = "string" THEN {Get(body, "message").v}
    ELSE TokenMessages

\* C15 as stated: for a 401 from the token endpoint, whatever the shape of the
\* parsed body (an empty body and an empty errors array included), the call
\* fails with "Registry auth failed: <message>", the message chosen by the
\* priority body.errors[0].message, body.details, errors[0].message, message,
\* then the stringified body; the extraction never fails with another error.
C15_Original ==
    \A t \in Tasks :
        LET tk == task[t] IN
        (TokenAnsweredWith(tk, 401) /\ tk.tokenResp.body.text # "invalid") =>
            /\ tk.result.state = "error"
            /\ tk.result.err.name = "HttpError"
            /\ \E m \in StatedMessages(tk.tokenResp.body.json) :
                    tk.result.err.message = "Registry auth failed: " \o m

\* the client holds a non-empty username
HoldsUsername == client.username # Undefined /\ client.username # ""

\* C16: every token request carries the query parameter account=<username> and
\* the header "Basic <base64(username:password)>" when the client holds a
\* non-empty username, and neither of them when it does not, whatever its
\* password; its URL is the realm of the challenge when the realm has the scheme
\* http or https, and the realm behind "https://" ("http://" for an insecure
\* client) when it has no scheme; for a realm with any other scheme the call has
\* failed without a token request.
C16_TokenRequestCredentials ==
    \A t \in Tasks :
        LET tk == task[t]
            realm == ParseWWWAuthenticate(tk.res.wwwAuth).parms.realm
        IN
        /\ \A i \in TokenRequests(tk) :
                LET req == tk.sent[i].req
                    query == {req.url.query[q] : q \in DOMAIN req.url.query}
                IN
                /\ (\E p \in query : p[1] = "account") <=> HoldsUsername
                /\ (req.hdrs.authorization # Undefined) <=> HoldsUsername
                /\ HoldsUsername =>
                        /\ <<"account", client.username>> \in query
                        /\ req.hdrs.authorization =
                                "Basic " \o Btoa(client.username \o ":"
                                    \o (IF client.password = Undefined THEN ""
                                        ELSE client.password))
                /\ RealmScheme(realm) \in {"http", "https"} => req.url.origin = realm
                /\ RealmScheme(realm) = Undefined =>
                        req.url.origin = (IF client.insecure THEN "http://" ELSE "https://")
                                            \o realm
                /\ RealmScheme(realm) \in {"http", "https", Undefined}
        /\ (HasScheme(tk, <<"b", "e", "a", "r", "e", "r">>)
                /\ RealmScheme(realm) \notin {"http", "https", Undefined}) =>
                /\ TokenRequests(tk) = {}
                /\ tk.pc = "done" /\ tk.result.state = "error"

\* a client with a password and no username asked the token server of a realm
\* given without a scheme: the request went to https://<realm> without account
\* and without Authorization
C16_Witness ==
    \E t \in Tasks :
        /\ client.username = Undefined /\ client.password = "secret"
        /\ ~client.insecure
        /\ \E i \in TokenRequests(task[t]) :
                /\ task[t].sent[i].req.url.origin = "https://auth.example/token"
                /\ task[t].sent[i].req.hdrs.authorization = Undefined
        /\ task[t].res.wwwAuth = Challenges.bearerLower

\* _makeHttpRequest has returned the chain tk.ress to the call
ChainReturned(tk) ==
    /\ tk.pc = "done" /\ Len(tk.ress) >= 1
    /\ IsTerminal(tk.follow, tk.ress[Len(tk.ress)])

\* the docker-content-digest header of resp, "" when it has none
DeclaredDigest(resp) == Join(resp.dcd, ":")

\* C17: createBlobReadStream succeeds only when the chain was returned and its
\* first response has no docker-content-digest header or one equal to the
\* requested digest; when the first response has a header that differs, the call
\* fails with BadDigestError and returns no stream; the headers of the later
\* responses of the chain play no part.
C17_FirstResponseDigest ==
    \A t \in Tasks :
        LET tk == task[t]
            first == DeclaredDigest(tk.ress[1])
        IN
        (tk.op = "createBlobReadStream" /\ tk.pc = "done") =>
            /\ tk.result = Ok => ChainReturned(tk) /\ first \in {"", Digest}
            /\ (ChainReturned(tk) /\ first \notin {"", Digest}) =>
                    /\ tk.result.state = "error"
                    /\ tk.result.err.name = "BadDigestError"
            /\ (ChainReturned(tk) /\ first \in {"", Digest}) => tk.result = Ok

\* a chain of two responses: the redirect declared another digest than the one
\* asked for, the final response declared the one asked for; the call failed
C17_Witness ==
    \E t \in Tasks :
        /\ task[t].op = "createBlobReadStream" /\ ChainReturned(task[t])
        /\ Len(task[t].ress) = 2
        /\ DeclaredDigest(task[t].ress[1]) = "sha256:beef"
        /\ DeclaredDigest(task[t].ress[2]) = Digest
        /\ task[t].result.err.name = "BadDigestError"

\* C18 as stated: when the first response of a createBlobReadStream declared a
\* docker-content-digest and the bytes the returned stream delivered hash to
\* another value, the stream has failed with BadDigestError at its end; it never
\* ends successfully with such content.
C18_Original ==
    \A t \in Tasks :
        LET tk == task[t] IN
        (/\ tk.op = "createBlobReadStream"
         /\ tk.stream.state \in {"ended", "errored"}
         /\ DeclaredDigest(tk.ress[1]) # ""
         /\ DeclaredDigest(tk.ress[1]) # "sha256:" \o Sha256Hex(tk.stream.data)) =>
            /\ tk.stream.state = "errored"
            /\ tk.stream.err.name = "BadDigestError"

\* the manifest strings and the manifest bodies whose schemaVersion is the number 1
SchemaV1Strs == {Manifests.v1, Manifests.v1Signed}
IsSchemaV1(body) == body.text = "json" /\ Get(body.json, "schemaVersion") = JNumber(1)

\* C19: getManifest whose request was answered 200 with a manifest of
\* schemaVersion 1 has failed with "schemaVersion 1 is not supported" and resolved
\* with nothing, whatever else the manifest holds, and a getManifest that resolved
\* holds the manifest of its response, which is not of schemaVersion 1;
\* digestFromManifestStr given a manifest string of schemaVersion 1 has failed
\* with the same error and returned no digest.
C19_SchemaV1Rejected ==
    \A t \in Tasks :
        LET tk == task[t]
            rejected == /\ tk.result.state = "error"
                        /\ tk.result.err.message = "schemaVersion 1 is not supported"
                        /\ tk.value = JUndefined
        IN
        /\ (tk.op = "getManifest" /\ tk.resp.status = 200
                /\ IsSchemaV1(tk.resp.body)) => rejected
        /\ (tk.op = "getManifest" /\ tk.pc = "done" /\ tk.result = Ok) =>
                /\ tk.resp.status = 200
                /\ tk.value = tk.resp.body.json
                /\ ~IsSchemaV1(tk.resp.body)
        /\ (tk.op = "digestFromManifestStr" /\ tk.manifestStr \in SchemaV1Strs) => rejected
        /\ (tk.op = "digestFromManifestStr" /\ tk.result = Ok) =>
                tk.manifestStr \notin SchemaV1Strs

\* digestFromManifestStr was given the schemaVersion 1 manifest that also has
\* signatures, after a getManifest on the same client, and failed
C19_Witness ==
    \E t \in Tasks :
        /\ task[t].op = "digestFromManifestStr" /\ task[t].pc = "done"
        /\ task[t].manifestStr = Manifests.v1Signed
        /\ task[t].result.err.message = "schemaVersion 1 is not supported"
        /\ task[t].call = 2

\* the manifest strings that are valid JSON
ValidJsonStrs ==
    {Manifests[k] : k \in DOMAIN Manifests} \ {Manifests.truncated, Manifests.empty}

\* C20 as stated: for every input that is valid JSON and not of schemaVersion 1
\* digestFromManifestStr returns "sha256:" followed by the hash of the input
\* string itself, so strings that parse to the same value but differ in bytes get
\* their own digests; an input that is not valid JSON raises an error.
C20_Original ==
    \A t \in Tasks :
        LET tk == task[t] IN
        tk.op = "digestFromManifestStr" =>
            /\ (tk.manifestStr \in ValidJsonStrs \ SchemaV1Strs) =>
                    /\ tk.result = Ok
                    /\ tk.value = JString("sha256:" \o Sha256Hex(tk.manifestStr))
            /\ tk.manifestStr \notin ValidJsonStrs => tk.result.state = "error"

\* the status the ping of a supportsV2 call was answered with (0: no response came)
ProbeStatus(tk) == tk.sent[1].answer

\* a supportsV2 call that has settled
ProbeSettled(tk) == tk.op = "supportsV2" /\ tk.pc = "done"

\* C21, amended: when the ping of supportsV2() fails with an error that carries a
\* response (a status outside 200, 401, 404) supportsV2 returns false; when it
\* fails with a transport failure, an error carrying no response, the error is
\* re-thrown.
C21_ProbeFailure ==
    \A t \in Tasks :
        LET tk == task[t] IN
        ProbeSettled(tk) =>
            /\ ProbeStatus(tk) \notin {0, 200, 401, 404} =>
                    tk.result = Ok /\ tk.value = JBool(FALSE)
            /\ ProbeStatus(tk) = 0 =>
                    tk.result.state = "error" /\ tk.result.err.name = "FetchError"

\* C21 as stated: a transport failure gives false, a failure carrying a response
\* is re-thrown
C21_Original ==
    \A t \in Tasks :
        LET tk == task[t] IN
        ProbeSettled(tk) =>
            /\ ProbeStatus(tk) = 0 => tk.result = Ok /\ tk.value = JBool(FALSE)
            /\ ProbeStatus(tk) \notin {0, 200, 401, 404} => tk.result.state = "error"

\* the ping of supportsV2 was answered 500 and supportsV2 returned false
C21_Witness ==
    \E t \in Tasks :
        /\ ProbeSettled(task[t]) /\ ProbeStatus(task[t]) = 500
        /\ task[t].result = Ok /\ task[t].value = JBool(FALSE)

\* the docker-distribution-api-version header of resp lists version
ListsVersion(resp, version) == \E i \in DOMAIN resp.apiVersion : resp.apiVersion[i] = version

\* C22: when the ping of supportsV2() returned a response (status 200, 401 or
\* 404), supportsV2 returns true exactly when the docker-distribution-api-version
\* header of that response lists registry/2.0 or its status is 200 or 401: a 404
\* without the version gives false, a 404 with it gives true.
C22_ProbeResult ==
    \A t \in Tasks :
        LET tk == task[t] IN
        (ProbeSettled(tk) /\ ProbeStatus(tk) \in {200, 401, 404}) =>
            /\ tk.result = Ok
            /\ tk.res.status = ProbeStatus(tk)
            /\ tk.value = JBool(ListsVersion(tk.res, "registry/2.0")
                                    \/ ProbeStatus(tk) \in {200, 401})

\* the ping was answered 404 with the header "registry/1.0, registry/2.0" and
\* supportsV2 returned true
C22_Witness ==
    \E t \in Tasks :
        /\ ProbeSettled(task[t]) /\ ProbeStatus(task[t]) = 404
        /\ task[t].res.apiVersion = <<"registry/1.0", "registry/2.0">>
        /\ task[t].value = JBool(TRUE)

\* the expectStatus of the i-th request of a call, [200] where none is passed
ExpectStatusOf(tk, i) ==
    LET kind == tk.sent[i].kind IN
    CASE kind = "ping" -> IF tk.op \in {"ping", "supportsV2"} THEN {200, 401, 404}
                          ELSE {200, 401}
      [] kind = "token" -> {200, 401}
      [] kind = "hop" -> {200, 302, 307}
      [] kind = "upload" -> {201}
      [] kind = "primary" /\ tk.op = "getManifest" -> {200, 401}
      [] kind = "primary" /\ tk.op = "deleteManifest" -> {200, 202}
      [] kind = "primary" /\ tk.op = "putManifest" -> {201}
      [] kind = "primary" /\ tk.op = "blobUpload" -> {202}
      [] OTHER -> {200}

\* the methods that catch what their request throws
CatchesRequestError(op) == op \in {"supportsV2", "putManifest", "blobUpload"}

C24_Original ==
    \A t \in Tasks :
        LET tk == task[t]
            n == Len(tk.sent)
        IN
        (/\ tk.pc = "done" /\ n >= 1 /\ ~CatchesRequestError(tk.op)
         /\ tk.sent[n].answer \notin {0, Unanswered}
         /\ tk.sent[n].answer \notin ExpectStatusOf(tk, n)) =>
            /\ tk.result.state = "error"
            /\ tk.result.err.status = tk.sent[n].answer
            /\ tk.result.err.name = GetHttpError(tk.sent[n].answer)

\* the status the request of the operation itself was answered with
PrimaryStatus(tk) == tk.sent[Len(tk.sent)].answer

\* the operation op has settled after its own request was answered
PrimarySettled(tk, op) ==
    /\ tk.op = op /\ tk.pc = "done"
    /\ Len(tk.sent) >= 1 /\ tk.sent[Len(tk.sent)].kind = "primary"

\* C25 as stated: getManifest whose request was answered 401 has failed with the
\* HttpError "Manifest <ref> Not Found: <message>" of status 401; answered with a
\* status other than 200 and 401 it has failed with an HttpError of that status;
\* it has resolved only on a 200 whose body is JSON of a schemaVersion other than
\* 1, with that manifest.
C25_Original ==
    \A t \in Tasks :
        LET tk == task[t]
            a == PrimaryStatus(tk)
        IN
        PrimarySettled(tk, "getManifest") =>
            /\ a = 401 =>
                    /\ tk.result.state = "error"
                    /\ tk.result.err.name = "HttpError" /\ tk.result.err.status = 401
                    /\ \E m \in TokenMessages \cup {"authentication required"} :
                            tk.result.err.message =
                                "Manifest " \o Digest \o " Not Found: " \o m
            /\ a \notin {0, 200, 401} =>
                    /\ tk.result.state = "error"
                    /\ tk.result.err.name = "HttpError" /\ tk.result.err.status = a
            /\ tk.result = Ok =>
                    /\ a = 200 /\ tk.resp.body.text = "json"
                    /\ ~IsSchemaV1(tk.resp.body)
                    /\ tk.value = tk.resp.body.json

\* C26 as stated: on a client created with the default scopes, the scope
\* deleteManifest logs in with includes the push action, and the call resolves
\* only when its DELETE was answered 200 or 202.
C26_Original ==
    \A t \in Tasks :
        LET tk == task[t] IN
        (tk.op = "deleteManifest" /\ client.scopes = <<"pull">>) =>
            /\ tk.scope = PushScope
            /\ (tk.pc = "done" /\ tk.result = Ok) =>
                    PrimarySettled(tk, "deleteManifest") /\ PrimaryStatus(tk) \in {200, 202}

\* the requests of the operation itself the call has issued
PrimaryRequests(tk) == {i \in DOMAIN tk.sent : tk.sent[i].kind = "primary"}

\* C27: putManifest logs in with the scope repository:<remoteName>:pull,push
\* whatever the scopes of the client, and issues at most one request of its own,
\* a PUT, after that login; answered with anything but 201, or not answered at
\* all, the call has failed with UploadError "Manifest upload failed."; answered
\* 201 it has resolved with the docker-content-digest and location headers of
\* that response.
C27_PutManifest ==
    \A t \in Tasks :
        LET tk == task[t] IN
        tk.op = "putManifest" =>
            /\ tk.scope = "repository:" \o RemoteName \o ":pull,push"
            /\ Cardinality(PrimaryRequests(tk)) <= 1
            /\ \A i \in PrimaryRequests(tk) :
                    /\ tk.sent[i].req.method = "PUT"
                    /\ i = Len(tk.sent)
                    /\ loggedIn /\ loggedInScope = tk.scope
            /\ (PrimarySettled(tk, "putManifest") /\ PrimaryStatus(tk) # 201) =>
                    /\ tk.result.state = "error"
                    /\ tk.result.err.name = "UploadError"
                    /\ tk.result.err.message = "Manifest upload failed."
            /\ (PrimarySettled(tk, "putManifest") /\ PrimaryStatus(tk) = 201) =>
                    /\ tk.result = Ok
                    /\ tk.resp.status = 201
                    /\ Get(tk.value, "digest") = JString(DeclaredDigest(tk.resp))
                    /\ Get(tk.value, "location") = JString(tk.resp.location.path)

\* the PUT of putManifest got no response and the call failed with the UploadError
C27_Witness ==
    \E t \in Tasks :
        /\ PrimarySettled(task[t], "putManifest") /\ PrimaryStatus(task[t]) = 0
        /\ task[t].result.err.message = "Manifest upload failed."
        /\ client.scopes = <<"pull">>

\* the completing PUTs of blobUpload the call has issued
UploadRequests(tk) == {i \in DOMAIN tk.sent : tk.sent[i].kind = "upload"}

UploadFailed(tk, message) ==
    /\ tk.pc = "done" /\ tk.result.state = "error"
    /\ tk.result.err.name = "UploadError" /\ tk.result.err.message = message

\* C28: blobUpload issues at most one PUT and only directly after its POST was
\* answered 202 with a location header; the PUT goes to that location, taken
\* relative to the registry when it has no origin, with the query digest=<digest>.
\* A POST answered with another status or not at all gives UploadError "Blob
\* upload rejected." and a 202 without location gives an UploadError, both
\* without a PUT; a PUT answered with anything but 201, or not at all, gives
\* UploadError "Blob upload failed."; a PUT answered 201 resolves the call.
C28_BlobUploadProtocol ==
    \A t \in Tasks :
        LET tk == task[t]
            loc == tk.resp.location
        IN
        tk.op = "blobUpload" =>
            /\ Cardinality(UploadRequests(tk)) <= 1
            /\ \A i \in UploadRequests(tk) :
                    /\ i >= 2 /\ i = Len(tk.sent)
                    /\ tk.sent[i - 1].kind = "primary" /\ tk.sent[i - 1].answer = 202
                    /\ tk.sent[i - 1].req.method = "POST"
                    /\ tk.resp.status = 202 /\ loc # NoLocation
                    /\ tk.sent[i].req.method = "PUT"
                    /\ tk.sent[i].req.url =
                            Url(IF loc.abs THEN loc.origin ELSE Registry, loc.path,
                                << <<"digest", Digest>> >>)
                    /\ tk.sent[i].answer \notin {Unanswered, 201} =>
                            UploadFailed(tk, "Blob upload failed.")
                    /\ tk.sent[i].answer = 201 => tk.pc = "done" /\ tk.result = Ok
            /\ \A i \in PrimaryRequests(tk) :
                    /\ tk.sent[i].answer \notin {Unanswered, 202} =>
                            UploadFailed(tk, "Blob upload rejected.") /\ UploadRequests(tk) = {}
                    /\ (tk.sent[i].answer = 202 /\ loc = NoLocation) =>
                            /\ UploadFailed(tk, "No registry upload location header returned")
                            /\ UploadRequests(tk) = {}
            /\ (tk.pc = "done" /\ tk.result = Ok) =>
                    \E i \in UploadRequests(tk) : tk.sent[i].answer = 201

\* the POST was answered 202 with a location on another host, the PUT went there
\* with the digest and was answered 500: "Blob upload failed."
C28_Witness ==
    \E t \in Tasks :
        /\ task[t].op = "blobUpload" /\ UploadFailed(task[t], "Blob upload failed.")
        /\ task[t].resp.location = AbsLocation("https://upload.example", "/1")
        /\ \E i \in UploadRequests(task[t]) :
                /\ task[t].sent[i].req.url.origin = "https://upload.example"
                /\ task[t].sent[i].answer = 500

\* the call is login() or an operation that logs in, and it is inside performLogin
InLogin(tk) == tk.op \in LoginOps \cup {"login"} /\ tk.pc \in {"ping", "token"}

\* the call has issued nothing but requests of performLogin
OnlyAuthRequests(tk) == \A i \in DOMAIN tk.sent : tk.sent[i].kind \in AuthKinds

\* C29: while login() is inside performLogin, and in the step in which
\* performLogin raises, loggedIn, loggedInScope, authInfo and the headers of the
\* client keep their values, those of an earlier login included; the call, login()
\* or an operation, ends with the error in that step and has issued no request of
\* its own.  A challenge that cannot be used raises in the step of the call
\* itself.  A ping or token request answered with a status the request does not
\* expect, or not answered, ends the call with an error and without a request of
\* the operation.  An operation has issued a request of its own only when its
\* performLogin returned an AuthInfo and login() stored it, or when login()
\* returned at once.
C29_FailedLoginNoEffect ==
    /\ [](\A t \in Tasks :
            LET tk == task[t] IN
            (/\ tk.op \in LoginOps \cup {"login"}
             /\ \E i \in DOMAIN tk.sent :
                    /\ tk.sent[i].kind \in AuthKinds
                    /\ tk.sent[i].answer \notin {Unanswered, 200, 401}) =>
                /\ tk.pc = "done" /\ tk.result.state = "error"
                /\ OnlyAuthRequests(tk)
                /\ lastWrite.call # tk.call)
    /\ [](\A t \in Tasks :
            LET tk == task[t] IN
            (tk.op \in LoginOps /\ ~OnlyAuthRequests(tk)) =>
                \/ tk.auth # NoAuthInfo /\ lastWrite.call = tk.call
                \/ \A i \in DOMAIN tk.sent : tk.sent[i].kind \notin AuthKinds)
    /\ [][\A t \in Tasks :
            LET tk == task'[t]
                called == calls' = calls + 1 /\ tk.call = calls'
                            /\ tk.op \in LoginOps \cup {"login"}
            IN
            /\ InLogin(tk) => session' = session /\ lastWrite' = lastWrite
            /\ ((InLogin(task[t]) \/ called) /\ tk.pc = "done"
                    /\ tk.result.state = "error") =>
                    /\ session' = session /\ lastWrite' = lastWrite
                    /\ OnlyAuthRequests(tk)]_vars

\* the client was logged in with the push scope by call 1; listTags, call 2, logged
\* in with the pull scope, its ping was answered 404, and the client still holds
\* what call 1 stored
C29_Witness ==
    \E t \in Tasks :
        /\ task[t].op = "listTags" /\ task[t].call = 2
        /\ task[t].pc = "done" /\ task[t].result.state = "error"
        /\ task[t].sent = <<Sent("ping", 0, PingRequest(NewHeaders))>>
                \/ (Len(task[t].sent) = 1 /\ task[t].sent[1].answer = 404)
        /\ loggedIn /\ loggedInScope = PushScope /\ lastWrite.call = 1
        /\ authInfo = lastWrite.auth

\* to_parse has the form  k="content"
IsQuoted(params) ==
    /\ Len(params) >= 5
    /\ SubSeq(params, 1, 3) = <<"k", "=", "\"">>
    /\ params[Len(params)] = "\""

\* the characters between the opening and the closing quote
QuotedContent(params) == SubSeq(params, 4, Len(params) - 1)

RECURSIVE PairedQuotes(_)
\* every quote of the content stands next to a quote of its own
PairedQuotes(content) ==
    IF content = <<>> THEN TRUE
    ELSE IF Head(content) # "\"" THEN PairedQuotes(Tail(content))
    ELSE /\ Len(content) >= 2 /\ content[2] = "\""
         /\ PairedQuotes(SubSeq(content, 3, Len(content)))

RECURSIVE Unescaped(_)
\* the text the content stands for: a pair of quotes is one quote
Unescaped(content) ==
    IF content = <<>> THEN ""
    ELSE IF Head(content) # "\"" THEN Head(content) \o Unescaped(Tail(content))
    ELSE "\"" \o Unescaped(SubSeq(content, 3, Len(content)))

\* C30: Parse_WWW_Authenticate given
\* Bearer realm="https://auth.example/token",service="registry.example" has the
\* scheme Bearer, no error, and exactly the parameters realm and service with
\* these two values.  Given  <scheme> k="content", where the content is any text
\* of the characters a , = " in which every quote is doubled, it has the scheme,
\* no error, and the one parameter k whose value is the content with each pair of
\* quotes read as one quote: commas and equal signs inside the quotes are part of
\* the value, and a doubled quote does not end it.
C30_ChallengeParsing ==
    \A t \in Tasks :
        LET tk == task[t]
            params == tk.to_parse.params
        IN
        tk.op = "Parse_WWW_Authenticate" =>
            /\ (/\ Join(tk.to_parse.word, "") = "Bearer"
                /\ Join(params, "") =
                    "realm=\"https://auth.example/token\",service=\"registry.example\"") =>
                    /\ tk.result = Ok
                    /\ Join(tk.parsed.scheme, "") = "Bearer"
                    /\ tk.parsed.err = Undefined
                    /\ tk.parsed.parms = [realm |-> "https://auth.example/token",
                                          service |-> "registry.example"]
            /\ (IsQuoted(params) /\ PairedQuotes(QuotedContent(params))) =>
                    /\ tk.result = Ok
                    /\ tk.parsed.scheme = tk.to_parse.word
                    /\ tk.parsed.err = Undefined
                    /\ tk.parsed.parms = [k |-> Unescaped(QuotedContent(params))]

\* Parse_WWW_Authenticate was given  Basic k="a,b=c""d"  and holds the parameter k
\* with the value  a,b=c"d
C30_Witness ==
    \E t \in Tasks :
        /\ task[t].op = "Parse_WWW_Authenticate" /\ task[t].pc = "done"
        /\ Join(task[t].to_parse.params, "") = "k=\"a,b=c\"\"d\""
        /\ task[t].parsed.parms = [k |-> "a,b=c\"d"]

\* the places of the separators in the characters after the scheme
SeparatorsOf(params) == {i \in DOMAIN params : params[i] \in {"\"", ",", "="}}

\* the place of the first separator, or one past the end when there is none
FirstSeparator(params) ==
    IF SeparatorsOf(params) = {} THEN Len(params) + 1
    ELSE CHOOSE i \in SeparatorsOf(params) : \A j \in SeparatorsOf(params) : i <= j

\* the characters before the first separator: a key without white space
KeyOf(params) == SubSeq(params, 1, FirstSeparator(params) - 1)
HasKey(params) == KeyOf(params) # <<>> /\ \A i \in DOMAIN KeyOf(params) : params[i] # " "

\* the key is followed by the end of the text or by a separator other than '='
MissingEquals(params) ==
    /\ HasKey(params)
    /\ FirstSeparator(params) <= Len(params) => params[FirstSeparator(params)] # "="

\* key=value is followed by another '=' with no comma before it
MissingComma(params) ==
    LET f == FirstSeparator(params) IN
    /\ HasKey(params) /\ f <= Len(params) /\ params[f] = "="
    /\ \E g \in SeparatorsOf(params) :
            /\ g > f + 1 /\ params[g] = "="
            /\ \A i \in (f + 1)..(g - 1) : i \notin SeparatorsOf(params)
            /\ \E i \in (f + 1)..(g - 1) : params[i] # " "

\* key=" is followed by a text in which every quote is doubled, and by nothing else
UnterminatedQuote(params) ==
    LET f == FirstSeparator(params) IN
    /\ HasKey(params) /\ f < Len(params) /\ params[f] = "=" /\ params[f + 1] = "\""
    /\ PairedQuotes(SubSeq(params, f + 2, Len(params)))

\* key="content" is followed by a character that is neither a comma nor a quote
TrailingGarbage(params) ==
    LET f == FirstSeparator(params) IN
    /\ HasKey(params) /\ f < Len(params) /\ params[f] = "=" /\ params[f + 1] = "\""
    /\ \E c \in (f + 2)..(Len(params) - 1) :
            /\ params[c] = "\"" /\ params[c + 1] \notin {"\"", ","}
            /\ PairedQuotes(SubSeq(params, f + 2, c - 1))

\* the Parse_WWW_Authenticate holds an error, no scheme and no parameter
ParseFailed(tk) ==
    /\ tk.result = Ok /\ tk.parsed.err \notin {Undefined, ""}
    /\ tk.parsed.scheme = <<>> /\ tk.parsed.parms = EmptyParms

\* C31: Parse_WWW_Authenticate given a scheme, white space and parameters in
\* which a key is not followed by '=', or two parameters are not separated by a
\* comma, or a quoted value is not terminated, or a character other than a comma
\* follows a closing quote, holds an error, an empty scheme and no parameters.
\* Whenever it holds an error it holds an empty scheme and no parameters.  When
\* a separator other than '=' follows the key the error is "Equal sign was
\* expected after <key>"; when the text ends after the key the error is
\* "Unexpected end of www-authenticate value." and does not name the key.
C31_ParseErrors ==
    \A t \in Tasks :
        LET tk == task[t]
            params == tk.to_parse.params
        IN
        (tk.op = "Parse_WWW_Authenticate" /\ tk.to_parse.word # <<>> /\ tk.to_parse.space) =>
            /\ (\/ MissingEquals(params) \/ MissingComma(params)
                \/ UnterminatedQuote(params) \/ TrailingGarbage(params)) => ParseFailed(tk)
            /\ tk.parsed.err # Undefined => ParseFailed(tk)
            /\ MissingEquals(params) =>
                    tk.parsed.err =
                        IF FirstSeparator(params) <= Len(params)
                        THEN "Equal sign was expected after " \o Join(KeyOf(params), "")
                        ELSE "Unexpected end of www-authenticate value."

\* C31 as stated: whenever the key is not followed by '=' the error names the key
C31_Original ==
    \A t \in Tasks :
        LET tk == task[t]
            params == tk.to_parse.params
        IN
        (/\ tk.op = "Parse_WWW_Authenticate" /\ tk.to_parse.word # <<>> /\ tk.to_parse.space
         /\ MissingEquals(params)) =>
            /\ ParseFailed(tk)
            /\ tk.parsed.err = "Equal sign was expected after " \o Join(KeyOf(params), "")

\* Parse_WWW_Authenticate was given  Basic k="a" j="b"  and holds the error about
\* the token after the closing quote, no scheme and no parameter
C31_Witness ==
    \E t \in Tasks :
        /\ task[t].op = "Parse_WWW_Authenticate" /\ task[t].pc = "done"
        /\ Join(task[t].to_parse.params, "") = "k=\"a\" j=\"b\""
        /\ TrailingGarbage(task[t].to_parse.params)
        /\ task[t].parsed.err = "Unexpected token ( j) after a\""
        /\ task[t].parsed.scheme = <<>> /\ task[t].parsed.parms = EmptyParms

\* C40 as stated: every construction of a Parse_WWW_Authenticate completes, and
\* holds a scheme or an error
C40_Original ==
    \A t \in Tasks :
        task[t].op = "Parse_WWW_Authenticate" =>
            /\ task[t].result = Ok
            /\ task[t].parsed.scheme # <<>> \/ task[t].parsed.err \notin {Undefined, ""}

\* C32: _parseDockerContentDigest given sha256:<rest> returns the algorithm sha256,
\* the expected digest <rest>, which is everything after the first colon, and the
\* value itself as raw.  Given no value or the empty value, a value without a
\* colon, or a value whose text before the first colon is not sha256, it raises a
\* BadDigestError.
C32_DigestHeader ==
    \A t \in Tasks :
        LET tk == task[t]
            bad == tk.result.state = "error" /\ tk.result.err.name = "BadDigestError"
        IN
        tk.op = "_parseDockerContentDigest" =>
            /\ (Len(tk.dcd) >= 2 /\ tk.dcd[1] = "sha256") =>
                    /\ tk.result = Ok
                    /\ tk.dcdInfo.algorithm = "sha256"
                    /\ tk.dcdInfo.expectedDigest = Join(Tail(tk.dcd), ":")
                    /\ tk.dcdInfo.raw = "sha256:" \o tk.dcdInfo.expectedDigest
            /\ (tk.dcd = <<>> \/ tk.dcd = <<"">>) => bad
            /\ Len(tk.dcd) = 1 => bad
            /\ (Len(tk.dcd) >= 2 /\ tk.dcd[1] # "sha256") => bad

\* _parseDockerContentDigest was given sha256:dead:beef and returned the expected
\* digest dead:beef
C32_Witness ==
    \E t \in Tasks :
        /\ task[t].op = "_parseDockerContentDigest" /\ task[t].pc = "done"
        /\ task[t].dcd = <<"sha256", "dead", "beef">>
        /\ task[t].result = Ok
        /\ task[t].dcdInfo.expectedDigest = "dead:beef"

\* arg names its index, without a scheme and as canonicalName writes it, and has
\* a tag or a digest, none of them empty
WrittenCanonically(arg) ==
    LET atIdx == LastIndexOf(arg, Chars["@"])
        named == IF atIdx # 0 THEN SubSeq(arg, 1, atIdx - 1) ELSE arg
        colonIdx == LastIndexOf(named, Chars[":"])
        tagged == colonIdx > LastIndexOf(named, Chars["/"])
        first == IndexOf(arg, Chars["/"], 1)
        host == SubSeq(arg, 1, first - 1)
    IN
    /\ IndexOf(arg, Chars["://"], 1) = 0
    /\ first # 0
    /\ \/ IndexOf(host, Chars["."], 1) # 0 \/ IndexOf(host, Chars[":"], 1) # 0
       \/ host = Chars["localhost"]
    /\ host # Chars["index.docker.io"]
    /\ host = Chars["docker.io"] =>
            IndexOf(arg, Chars["library"] \o Chars["/"], first + 1) # first + 1
    /\ IF atIdx # 0 THEN atIdx < Len(arg) /\ (tagged => colonIdx < Len(named))
       ELSE tagged /\ colonIdx < Len(named)

\* C33: when parseRepoAndRef returns, canonicalRef is the string it was given
\* exactly if that string names its index, without a scheme, as docker.io rather
\* than index.docker.io and without the namespace library on docker.io, and has a
\* tag or a digest, none of them empty.  For every other string it accepts,
\* canonicalRef differs from the string: the index, the tag latest or both are
\* filled in, or the scheme, the namespace library or an empty tag or digest is
\* dropped.
C33_RoundTrip ==
    \A t \in Tasks :
        LET tk == task[t] IN
        (tk.op = "parseRepoAndRef" /\ tk.result = Ok) =>
            (tk.image.canonicalRef = tk.arg <=> WrittenCanonically(tk.arg))

\* C33 as stated: canonicalRef is the string given, for every string accepted
C33_Original ==
    \A t \in Tasks :
        (task[t].op = "parseRepoAndRef" /\ task[t].result = Ok) =>
            task[t].image.canonicalRef = task[t].arg

\* parseRepoAndRef was given localhost:5000/blarg:mytag@sha256:cafebabe and
\* returned it as canonicalRef
C33_Witness ==
    \E t \in Tasks :
        /\ task[t].op = "parseRepoAndRef" /\ task[t].result = Ok
        /\ Join(task[t].arg, "") = "localhost:5000/blarg:mytag@sha256:cafebabe"
        /\ task[t].image.canonicalRef = task[t].arg
        /\ task[t].image.tag = <<Chars["mytag"]>>
        /\ task[t].image.digest = <<Chars["sha256:cafebabe"]>>

\* the namespace of a remote name: what stands before its first "/", <<>> when
\* it has none
NamespaceOf(remoteName) ==
    SubSeq(remoteName, 1, IndexOf(remoteName, Chars["/"], 1) - 1)

\* 2 to 255 characters of [a-z0-9._-], no hyphen first, no hyphen last, no two
\* hyphens in a row
WellFormedNamespace(ns) ==
    /\ Len(ns) >= 2 /\ Len(ns) <= 255
    /\ \A i \in DOMAIN ns :
            ns[i] \in {"a", "b", "c", "d", "e", "f", "g", "h", "i", "j", "k", "l", "m",
                       "n", "o", "p", "q", "r", "s", "t", "u", "v", "w", "x", "y", "z",
                       "0", "1", "2", "3", "4", "5", "6", "7", "8", "9", ".", "_", "-"}
    /\ ns[1] # "-"
    /\ ns[Len(ns)] # "-"
    /\ IndexOf(ns, Chars["--"], 1) = 0

\* C34 as stated: a repository that parseRepo accepted with a namespace has a
\* well-formed one; in particular one that starts with a hyphen, or ends with
\* one, was rejected
C34_Original ==
    \A t \in Tasks :
        LET tk == task[t] IN
        (/\ tk.op = "parseRepoAndRef" /\ tk.result = Ok
         /\ IndexOf(tk.image.repo.remoteName, Chars["/"], 1) # 0) =>
            WellFormedNamespace(NamespaceOf(tk.image.repo.remoteName))

\* arg names docker.io or index.docker.io with the scheme http
PlaintextOfficial(arg) ==
    \E host \in {Chars["docker.io"], Chars["index.docker.io"]} :
        IndexOf(arg, Chars["http"] \o Chars["://"] \o host \o Chars["/"], 1) = 1

\* C35: an index that parseRepo or parseRepoAndRef returned (parsed with
\* parseIndex from the string, from a default index string, or a default index
\* object that parseIndex made) has the scheme https when it is official; a
\* string that names the official index with http:// is refused with the error
\* "plaintext HTTP to official index is disallowed"; and the base URL of a
\* client for an official index is https://registry-1.docker.io, an http scheme
\* option being refused with an error.
C35_OfficialHttps ==
    \A t \in Tasks :
        LET tk == task[t]
            index == tk.image.repo.index
        IN
        tk.op \in {"parseRepoAndRef", "urlFromIndex"} =>
            /\ (tk.image.repo.result = Ok /\ index.official) => index.scheme = "https"
            /\ PlaintextOfficial(tk.arg) =>
                    /\ tk.result.state = "error"
                    /\ tk.result.err.message \in
                        {"invalid index, plaintext HTTP to official index is disallowed: "
                            \o "http://" \o host : host \in {"docker.io", "index.docker.io"}}
            /\ (tk.op = "urlFromIndex" /\ tk.image.repo.result = Ok /\ index.official) =>
                    /\ tk.result = Ok => tk.url = "https://registry-1.docker.io"
                    /\ tk.result = Ok <=> tk.scheme \in {Undefined, "https"}

\* a client was made for index.docker.io/blarg without a scheme option: its
\* index is official with the scheme https, and so is its base URL
C35_Witness ==
    \E t \in Tasks :
        /\ task[t].op = "urlFromIndex" /\ task[t].result = Ok
        /\ Join(task[t].arg, "") = "index.docker.io/blarg"
        /\ task[t].scheme = Undefined
        /\ task[t].image.repo.index =
                [name |-> Chars["docker.io"], official |-> TRUE, scheme |-> "https"]
        /\ task[t].url = "https://registry-1.docker.io"

\* the authorization headers of the requests of the given kind that tk has sent
AuthorizationsSent(tk, kind) ==
    {tk.sent[i].req.hdrs.authorization : i \in {i \in DOMAIN tk.sent : tk.sent[i].kind = kind}}

\* C37 as stated: the POST and the PUT of one blobUpload carry the same
\* authorization, and when the call's own login() went through performLogin it
\* is the one made from the AuthInfo that performLogin returned to it,
\* whatever other operations do on the client meanwhile
C37_Original ==
    \A t \in Tasks :
        LET tk == task[t]
            own == SetAuthHeaderFromAuthInfo(NewHeaders, tk.auth).authorization
        IN
        (tk.op = "blobUpload" /\ AuthorizationsSent(tk, "upload") # {}) =>
            /\ AuthorizationsSent(tk, "upload") = AuthorizationsSent(tk, "primary")
            /\ AuthorizationsSent(tk, "ping") # {} => AuthorizationsSent(tk, "upload") = {own}

\* tk is a call of login() whose performLogin, invoked with tk.scope, has
\* returned tk.auth: None after a ping answered 200, Basic after a Basic
\* challenge, Bearer with the token issued to its token request for tk.scope
PerformLoginReturned(tk) ==
    /\ tk.pingRes = NoPingRes => tk.sent # <<>> /\ tk.sent[1].kind = "ping"
    /\ \A i \in DOMAIN tk.sent : tk.sent[i].kind \in AuthKinds /\ tk.sent[i].answer # Unanswered
    /\ CASE tk.auth.type = "None" -> tk.res.status = 200
         [] tk.auth.type = "Basic" ->
                /\ tk.res.status = 401 /\ HasScheme(tk, <<"b", "a", "s", "i", "c">>)
                /\ tk.auth.username = Nullish(client.username, "")
                /\ tk.auth.password = Nullish(client.password, "")
         [] tk.auth.type = "Bearer" ->
                /\ tk.res.status = 401 /\ HasScheme(tk, <<"b", "e", "a", "r", "e", "r">>)
                /\ tk.auth.token = IssuedToken(tk.call)
                /\ \E i \in TokenRequests(tk) :
                        /\ tk.sent[i].answer = 200
                        /\ \E q \in DOMAIN tk.sent[i].req.url.query :
                                tk.sent[i].req.url.query[q] = <<"scope", tk.scope>>
         [] OTHER -> FALSE

\* C38: in every state the client is either not logged in, with loggedInScope
\* and authInfo both null, or logged in, with loggedInScope a scope string,
\* authInfo what the last assignment of login() stored and the authorization of
\* this._headers the one derived from it; every step that changes the session
\* is the assignment of a login() whose performLogin was invoked with exactly
\* the scope stored and returned the AuthInfo stored; and loggedIn never goes
\* from true back to false.
C38_SessionState ==
    /\ [](IF loggedIn
          THEN /\ loggedInScope \in {PullScope, PushScope}
               /\ loggedInScope = lastWrite.scope
               /\ authInfo = lastWrite.auth
               /\ authInfo.type \in {"None", "Basic", "Bearer"}
               /\ headers.authorization = AuthorizationOf(authInfo)
          ELSE /\ loggedInScope = Undefined
               /\ authInfo = NoAuthInfo
               /\ lastWrite = NoWrite
               /\ headers = ConstructorHeaders(client))
    /\ [][/\ loggedIn => loggedIn'
          /\ session' # session =>
                /\ loggedIn'
                /\ \E t \in Tasks :
                        /\ task[t].pc = "loginWrite"
                        /\ PerformLoginReturned(task[t])
                        /\ loggedInScope' = task[t].scope
                        /\ authInfo' = task[t].auth
       ]_vars

\* two operations logged in at once with different scopes; both assignments
\* were made, the later one over the earlier, and the session is the later one's:
\* a Bearer token for the pull scope, after a login for pull,push
C38_Witness ==
    /\ loggedIn /\ lastWrite.over # 0
    /\ loggedInScope = PullScope
    /\ authInfo = AuthBearer(IssuedToken(lastWrite.call))
    /\ headers.authorization = "Bearer " \o IssuedToken(lastWrite.call)
    /\ \E t \in Tasks :
            /\ task[t].call = lastWrite.over /\ task[t].scope = PushScope
            /\ task[t].auth.type \in {"None", "Basic", "Bearer"}

\* C36: a login() (called directly or by an operation) that starts while the
\* client is not logged in with its scope issues a ping of its own, also when
\* another login() with the same scope is in flight; it returns without a
\* request only when an assignment of login() with that scope was made before
\* it started.  Every login() that got an AuthInfo from performLogin has sent
\* its own ping and, for Bearer, its own token request, answered with a token
\* of its own.
C36_NoSingleFlight ==
    /\ [][\A t \in Tasks :
            LET tk == task'[t] IN
            (calls' = calls + 1 /\ tk.call = calls') =>
                IF loggedIn /\ loggedInScope = tk.scope
                THEN /\ tk.sent = <<>> /\ tk.pc \in {"done", "afterLogin"}
                     /\ lastWrite.scope = tk.scope
                     /\ lastWrite.call # 0 /\ lastWrite.call < tk.call
                ELSE /\ tk.pc = "ping"
                     /\ Len(tk.sent) = 1 /\ tk.sent[1].kind = "ping"
                     /\ tk.sent[1].answer = Unanswered
       ]_vars
    /\ [](\A t \in Tasks :
            task[t].pc = "loginWrite" => PerformLoginReturned(task[t]))

\* two login() calls with the same scope were both started before either had
\* assigned; each sent a ping and a token request of its own and holds a token
\* of its own, and neither has assigned yet
C36_Witness ==
    /\ ~loggedIn
    /\ task["a"].scope = task["b"].scope
    /\ \A t \in Tasks :
            /\ task[t].op = "login" /\ task[t].pc = "loginWrite"
            /\ Len(task[t].sent) = 2
            /\ task[t].sent[1].kind = "ping" /\ task[t].sent[2].kind = "token"
            /\ task[t].auth = AuthBearer(IssuedToken(task[t].call))
    /\ task["a"].auth # task["b"].auth

====
